---------------------------- MODULE Spec2Model ----------------------------
(***************************************************************************)
(* A model of the domain-status inference engine of ninjahorder:           *)
(*   composables/useDomainCheck.ts  (handleError, fetchDnsJson,            *)
(*       checkDomainAvailability, interpretCombinedResults,                *)
(*       checkDomainsStandard, ...)                                        *)
(*   utils/DohResolver.ts           (sendDohMsg, DohResolver.query)        *)
(*                                                                         *)
(* Three specifications share the module:                                  *)
(*   SpecFetch  one call of fetchDnsJson (the retry loop) and the          *)
(*              classification of its failure by the caller;               *)
(*   Spec       one call of checkDomainAvailability: wildcard probe,       *)
(*              the four NS/TXT queries, the SOA fallback, classification; *)
(*   SpecBatch  checkDomainsStandard: cache, progress, per-domain          *)
(*              isolation.                                                 *)
(*                                                                         *)
(* Strings the code searches (error messages) are sequences of words; a    *)
(* substring test is a test for a word, and toLowerCase maps words.        *)
(***************************************************************************)
EXTENDS Integers, Sequences, FiniteSets, TLC

VARIABLES
    \* ---- fetchDnsJson (SpecFetch)
    fPc,            \* "idle" | "attempt" | "backoff" | "returned" | "thrown" | "classified"
    fProvider,      \* provider URL of the call
    fType,          \* record type of the call
    attempts,       \* let attempts
    lastError,      \* let lastError
    fLog,           \* history: the raw outcome of every attempt, in order
    fOut,           \* what the call returned / how the caller classified its failure
    \* ---- checkDomainAvailability (Spec)
    cPc,            \* "wildcard" | "nstxt" | "joined" | "soa" | "done" | "off"
    cTld,           \* the TLD of the domain under check
    currentProviderIndex,       \* let currentProviderIndex (0-based)
    probeUrl,       \* the provider the wildcard probe went to
    isWildcard,     \* let isWildcard
    initialConfidenceReasons,   \* const initialConfidenceReasons
    nsTxt,          \* the four NS/TXT promises: None while pending, else the outcome
    soa,            \* the SOA promises: <<>> when not issued, else None/outcome each
    errorsIndicatingDomainExists,   \* let errorsIndicatingDomainExists
    cResult,        \* the DomainResult returned, None before
    \* ---- checkDomainsStandard (SpecBatch)
    now,            \* Date.now(), in milliseconds
    cache,          \* cache.value: the entries, at most one per cache key
    results,        \* the reactive results array
    progress,       \* progress.value
    isChecking,     \* isChecking.value
    calls,          \* the calls of checkDomainsStandard so far, in order of call
    \* ---- a function applied to one argument (SpecPure)
    arg,            \* the argument, None when no function is under study
    ret,            \* what the function returned, None before it has
    \* ---- checkDomainsWithWorker (SpecWorker)
    worker,         \* let worker: the index in `workers` of the worker held, 0 for null
    workers         \* the Worker objects created so far, in order of creation

fetchVars == <<fPc, fProvider, fType, attempts, lastError, fLog, fOut>>
checkVars == <<cPc, cTld, currentProviderIndex, probeUrl, isWildcard,
               initialConfidenceReasons, nsTxt, soa, errorsIndicatingDomainExists, cResult>>
batchVars == <<now, cache, results, progress, isChecking, calls>>
pureVars == <<arg, ret>>
workerVars == <<worker, workers>>
vars == <<fetchVars, checkVars, batchVars, pureVars, workerVars>>

None == [none |-> TRUE]

(***************************************************************************)
(* Constants of the source.                                                *)
(***************************************************************************)
DNS_STATUS_NOERROR == 0
DNS_STATUS_FORMERR == 1
DNS_STATUS_SERVFAIL == 2
DNS_STATUS_NXDOMAIN == 3
DNS_STATUS_NOTIMP == 4
DNS_STATUS_REFUSED == 5

DNS_RECORD_TYPE_A == 1
DNS_RECORD_TYPE_NS == 2
DNS_RECORD_TYPE_CNAME == 5
DNS_RECORD_TYPE_SOA == 6
DNS_RECORD_TYPE_TXT == 16
DNS_RECORD_TYPE_AAAA == 28

ERROR_CODES_SUGGESTING_DOMAIN_EXISTS == {DNS_STATUS_SERVFAIL, DNS_STATUS_REFUSED}

TIMEOUT_MS == 5000
MAX_RETRIES == 1

\* PROVIDERS, in configuration (object key) order: cloudflare, quad9, google.
PROVIDERS ==
    << [name |-> "Cloudflare", baseUrl |-> "https://cloudflare-dns.com/dns-query"],
       [name |-> "Quad9",      baseUrl |-> "https://dns.quad9.net:5053/dns-query"],
       [name |-> "Google",     baseUrl |-> "https://dns.google/resolve"] >>

DOH_PROVIDER_URLS == [i \in 1..Len(PROVIDERS) |-> PROVIDERS[i].baseUrl]

PRIMARY_PROVIDER_URLS == << PROVIDERS[1].baseUrl, PROVIDERS[3].baseUrl >>

\* getProviderConfigFromUrl: the first provider whose baseUrl the url starts with
\* (the model's urls are the base urls themselves); None when there is none.
getProviderConfigFromUrl(url) ==
    IF \E i \in 1..Len(PROVIDERS) : PROVIDERS[i].baseUrl = url
    THEN PROVIDERS[CHOOSE i \in 1..Len(PROVIDERS) :
                      /\ PROVIDERS[i].baseUrl = url
                      /\ \A j \in 1..(i-1) : PROVIDERS[j].baseUrl # url]
    ELSE None

ProviderName(url) ==
    IF getProviderConfigFromUrl(url) = None THEN "Unknown Provider"
    ELSE getProviderConfigFromUrl(url).name

(***************************************************************************)
(* Words and messages.                                                     *)
(***************************************************************************)
\* String.prototype.toLowerCase on one word of the vocabulary.
ToLowerWord(w) ==
    CASE w = "HTTP" -> "http"
      [] w = "Error:" -> "error:"
      [] w = "DoH" -> "doh"
      [] w = "Gateway" -> "gateway"
      [] w = "Timeout" -> "timeout"
      [] w = "Request" -> "request"
      [] w = "Service" -> "service"
      [] w = "Unavailable" -> "unavailable"
      [] w = "Internal" -> "internal"
      [] w = "Server" -> "server"
      [] w = "Error" -> "error"
      [] w = "Bad" -> "bad"
      [] w = "Not" -> "not"
      [] w = "Found" -> "found"
      [] w = "Too" -> "too"
      [] w = "Many" -> "many"
      [] w = "Requests" -> "requests"
      [] w = "Failed" -> "failed"
      [] w = "NetworkError" -> "networkerror"
      [] w = "Load" -> "load"
      [] w = "Unexpected" -> "unexpected"
      [] w = "Binary" -> "binary"
      [] w = "DNS" -> "dns"
      [] w = "JSON" -> "json"
      [] w = "Cannot" -> "cannot"
      [] w = "(reading" -> "(reading"
      [] w = "'toLowerCase')" -> "'tolowercase')"
      [] w = "'Status')" -> "'status')"
      [] OTHER -> w

ToLowerCase(msg) == [i \in 1..Len(msg) |-> ToLowerWord(msg[i])]

\* String.prototype.includes(word), case-sensitive.
Includes(msg, w) == \E i \in 1..Len(msg) : msg[i] = w

IsDigits(w) == w \in {"400", "403", "404", "408", "429", "500", "502", "503", "504"}

\* error.message.match(/status (\d+)/): the number after the word "status", or
\* "" (null) when the message has no such place.
StatusMatch(msg) ==
    IF \E i \in 1..(Len(msg)-1) : msg[i] = "status" /\ IsDigits(msg[i+1])
    THEN msg[(CHOOSE i \in 1..(Len(msg)-1) :
                 /\ msg[i] = "status" /\ IsDigits(msg[i+1])
                 /\ \A j \in 1..(i-1) : ~(msg[j] = "status" /\ IsDigits(msg[j+1]))) + 1]
    ELSE ""

\* /status (50[234])/.test(message)
TransientStatusTest(msg) ==
    \E i \in 1..(Len(msg)-1) : msg[i] = "status" /\ msg[i+1] \in {"502", "503", "504"}

\* A JavaScript error object: its name, whether it is a DOMException, whether it
\* is a TypeError, its message.
MkError(n, d, t, m) == [name |-> n, dom |-> d, typeErr |-> t, message |-> m]


(***************************************************************************)
(* DNS responses (the DoH JSON envelope).  A missing Answer or Authority   *)
(* is the empty sequence: the code reads both only through ?.some and a    *)
(* truthiness test followed by forEach.                                    *)
(***************************************************************************)
RR(n, t, d) == [name |-> n, type |-> t, data |-> d]

Resp(st, ad, ans, auth) ==
    [Status |-> st, AD |-> ad, Answer |-> ans, Authority |-> auth, Comment |-> <<>>]

DNS_STATUS_MESSAGES(st) ==
    CASE st = DNS_STATUS_NOERROR -> "NOERROR (OK)"
      [] st = DNS_STATUS_FORMERR -> "FORMERR (Format Error)"
      [] st = DNS_STATUS_SERVFAIL -> "SERVFAIL (Server Failure)"
      [] st = DNS_STATUS_NXDOMAIN -> "NXDOMAIN (Name Error/Not Found)"
      [] st = DNS_STATUS_NOTIMP -> "NOTIMP (Not Implemented)"
      [] st = DNS_STATUS_REFUSED -> "REFUSED (Query Refused)"
      [] OTHER -> "error code"

(***************************************************************************)
(* utils/DohResolver.ts: sendDohMsg.  `raw` is what the network did with   *)
(* the request: the abort timer fired first ("abort"), fetch rejected      *)
(* ("network", with the browser's message), or a response arrived (its     *)
(* HTTP status and status text, its content type, its body).               *)
(***************************************************************************)
ALLOWED_REQUEST_METHODS == {"GET", "POST"}

isMethodAllowed(method) == method \in ALLOWED_REQUEST_METHODS

\* What fetch() rejects with.
AbortError == MkError("AbortError", TRUE, FALSE, <<"signal", "is", "aborted", "without", "reason">>)
NetworkFailure(browser) ==
    MkError("TypeError", FALSE, TRUE,
            CASE browser = "chrome" -> <<"Failed", "to", "fetch">>
              [] browser = "firefox" -> <<"NetworkError", "when", "attempting", "to", "fetch", "resource.">>
              [] OTHER -> <<"Load", "failed">>)

Thrown(e) == [ok |-> FALSE, error |-> e]
Returned(d) == [ok |-> TRUE, data |-> d]

sendDohMsg(raw, url, method, timeout) ==
    IF ~isMethodAllowed(method)
    THEN Thrown(MkError("MethodNotAllowedError", FALSE, FALSE, <<"Method", method, "is", "not", "allowed.">>))
    ELSE CASE raw.kind = "abort" ->
                \* catch: error instanceof DOMException && error.name === 'AbortError'
                IF AbortError.dom /\ AbortError.name = "AbortError"
                THEN Thrown(MkError("Error", FALSE, FALSE,
                        <<"DoH", "request", "to", url, "timed", "out", "after", "5000ms">>))
                ELSE Thrown(AbortError)
           [] raw.kind = "network" -> Thrown(NetworkFailure(raw.browser))
           [] raw.kind = "http" ->
                \* !response.ok: `HTTP Error: ${response.status} ${response.statusText}`
                Thrown(MkError("Error", FALSE, FALSE, <<"HTTP", "Error:", raw.code>> \o raw.statusText))
           [] raw.kind = "json" -> Returned(raw.data)
           [] raw.kind = "badjson" ->
                Thrown(MkError("SyntaxError", FALSE, FALSE, <<"Unexpected", "token", "in", "JSON">>))
           [] raw.kind = "binary" ->
                Thrown(MkError("Error", FALSE, FALSE,
                     <<"Binary", "DNS", "message", "format", "not", "supported", "in", "this", "implementation">>))
           [] OTHER ->
                Thrown(MkError("Error", FALSE, FALSE, <<"Unexpected", "content", "type:", "text/html">>))

(***************************************************************************)
(* handleError: the classification of a failure.                           *)
(***************************************************************************)
Classified(c, m, s) == [category |-> c, message |-> m, suggestsDomainExists |-> s]

\* A mutant of handleError: every failure is a timeout.
handleErrorAllTimeout(error) == Classified("timeout", <<"DNS request timed out">>, TRUE)

handleError(error) ==
    IF error.name = "AbortError" \/ Includes(ToLowerCase(error.message), "timeout")
    THEN Classified("timeout", <<"DNS request timed out">>, TRUE)
    ELSE IF error.typeErr /\ (Includes(error.message, "NetworkError") \/ Includes(error.message, "fetch"))
    THEN Classified("network", <<"Network connection issue">>, FALSE)
    ELSE IF Includes(error.message, "status")
    THEN LET httpStatus == StatusMatch(error.message) IN
         IF httpStatus # "" /\ httpStatus \in {"500", "502", "503", "504"}
         THEN Classified("dns_error", <<"DoH provider server error", httpStatus>>, TRUE)
         ELSE IF httpStatus # ""
         THEN Classified("dns_error", <<"DoH query failed with HTTP", httpStatus>>, FALSE)
         ELSE Classified("dns_error", <<"DoH server error (Unknown Status)">>, FALSE)
    ELSE IF Includes(error.message, "SERVFAIL")
            \/ \E i \in 1..(Len(error.message)-1) :
                   error.message[i] = "Server" /\ error.message[i+1] = "Failure"
    THEN Classified("dns_error", <<"DNS server failed to process the query (SERVFAIL)">>, TRUE)
    ELSE Classified("dns_error", <<"DNS lookup error:">> \o error.message, FALSE)

(***************************************************************************)
(* fetchDnsJson: the retry loop.                                           *)
(***************************************************************************)
\* isTimeout || isTransientServerError of the catch block.
Retryable(error) ==
    LET isTimeout == (error.dom /\ error.name = "AbortError")
                     \/ Includes(ToLowerCase(error.message), "timeout")
        isTransientServerError == Includes(error.message, "status")
                                  /\ TransientStatusTest(error.message)
    IN isTimeout \/ isTransientServerError

\* One pass of the body of the try block: resolver.query, then the read of
\* data.Status (a JSON null makes that read throw inside the try).
AttemptOutcome(raw, url) ==
    LET r == sendDohMsg(raw, url, "GET", TIMEOUT_MS) IN
    IF ~r.ok THEN r
    ELSE IF r.data = None
    THEN Thrown(MkError("TypeError", FALSE, TRUE,
                 <<"Cannot", "read", "properties", "of", "null", "(reading", "'Status')">>))
    ELSE IF r.data.Status \in ERROR_CODES_SUGGESTING_DOMAIN_EXISTS
    THEN Returned([r.data EXCEPT !.Comment =
                     <<"DNS server returned", DNS_STATUS_MESSAGES(r.data.Status),
                       "This often happens with registered domains.">>])
    ELSE r


(***************************************************************************)
(* What the network may do with one request.                               *)
(***************************************************************************)
HttpFailures ==
    { [kind |-> "http", code |-> "500", statusText |-> <<"Internal", "Server", "Error">>],
      [kind |-> "http", code |-> "500", statusText |-> <<>>],
      [kind |-> "http", code |-> "502", statusText |-> <<"Bad", "Gateway">>],
      [kind |-> "http", code |-> "503", statusText |-> <<"Service", "Unavailable">>],
      [kind |-> "http", code |-> "503", statusText |-> <<>>],
      [kind |-> "http", code |-> "504", statusText |-> <<"Gateway", "Timeout">>],
      [kind |-> "http", code |-> "504", statusText |-> <<>>],
      [kind |-> "http", code |-> "404", statusText |-> <<"Not", "Found">>],
      [kind |-> "http", code |-> "429", statusText |-> <<"Too", "Many", "Requests">>] }

TransportFailures ==
    { [kind |-> "abort"],
      [kind |-> "network", browser |-> "chrome"],
      [kind |-> "network", browser |-> "firefox"],
      [kind |-> "network", browser |-> "safari"],
      [kind |-> "badjson"], [kind |-> "binary"], [kind |-> "ctype"],
      [kind |-> "json", data |-> None] }

FetchResponses ==
    { [kind |-> "json", data |-> Resp(st, FALSE, <<>>, <<>>)] :
        st \in {DNS_STATUS_NOERROR, DNS_STATUS_SERVFAIL, DNS_STATUS_NXDOMAIN, DNS_STATUS_REFUSED} }

RawOutcomes == HttpFailures \cup TransportFailures \cup FetchResponses

FetchRecordTypes == {DNS_RECORD_TYPE_A, DNS_RECORD_TYPE_NS, DNS_RECORD_TYPE_SOA, DNS_RECORD_TYPE_TXT}

CheckOff ==
    /\ cPc = "off" /\ cTld = "" /\ currentProviderIndex = 0 /\ probeUrl = ""
    /\ isWildcard = FALSE /\ initialConfidenceReasons = <<>>
    /\ nsTxt = <<>> /\ soa = <<>> /\ errorsIndicatingDomainExists = 0 /\ cResult = None

FetchOff ==
    /\ fPc = "off" /\ fProvider = "" /\ fType = 0 /\ attempts = 0
    /\ lastError = None /\ fLog = <<>> /\ fOut = None

BatchOff ==
    /\ now = 0 /\ cache = {} /\ results = <<>> /\ progress = None
    /\ isChecking = FALSE /\ calls = <<>>

PureOff == arg = None /\ ret = None

WorkerOff == worker = 0 /\ workers = <<>>

\* fetchDnsJson(providerUrl, domain, recordType) has been called; attempts = 0.
InitFetch ==
    /\ fPc = "attempt"
    /\ fProvider \in {DOH_PROVIDER_URLS[i] : i \in 1..Len(DOH_PROVIDER_URLS)}
    /\ fType \in FetchRecordTypes
    /\ attempts = 0
    /\ lastError = None
    /\ fLog = <<>>
    /\ fOut = None
    /\ CheckOff
    /\ BatchOff
    /\ PureOff /\ WorkerOff

\* while (attempts <= MAX_RETRIES) { try { ... return data } ... }
FetchAttemptReturns(raw) ==
    /\ fPc = "attempt"
    /\ attempts <= MAX_RETRIES
    /\ AttemptOutcome(raw, fProvider).ok
    /\ fLog' = Append(fLog, raw)
    /\ fOut' = AttemptOutcome(raw, fProvider)
    /\ fPc' = "returned"
    /\ UNCHANGED <<fProvider, fType, attempts, lastError, checkVars, batchVars, pureVars, workerVars>>

\* catch (rawError): lastError = error; attempts++; retry after 200 ms or break,
\* and after the loop throw lastError.
FetchAttemptFails(raw) ==
    /\ fPc = "attempt"
    /\ attempts <= MAX_RETRIES
    /\ ~AttemptOutcome(raw, fProvider).ok
    /\ LET error == AttemptOutcome(raw, fProvider).error IN
       /\ fLog' = Append(fLog, raw)
       /\ lastError' = error
       /\ attempts' = attempts + 1
       /\ IF Retryable(error) /\ attempts + 1 <= MAX_RETRIES
          THEN fPc' = "backoff" /\ fOut' = fOut
          ELSE fPc' = "thrown" /\ fOut' = Thrown(error)
    /\ UNCHANGED <<fProvider, fType, checkVars, batchVars, pureVars, workerVars>>

\* await new Promise(resolve => setTimeout(resolve, 200)); continue
FetchBackoffEnds ==
    /\ fPc = "backoff"
    /\ fPc' = "attempt"
    /\ UNCHANGED <<fProvider, fType, attempts, lastError, fLog, fOut, checkVars, batchVars, pureVars, workerVars>>

\* The caller's .catch: handleError(`NS query from ...`, error)
FetchCallerClassifies ==
    /\ fPc = "thrown"
    /\ fPc' = "classified"
    /\ fOut' = [ok |-> FALSE, error |-> fOut.error, classified |-> handleError(fOut.error)]
    /\ UNCHANGED <<fProvider, fType, attempts, lastError, fLog, checkVars, batchVars, pureVars, workerVars>>

NextFetch ==
    \/ \E raw \in RawOutcomes : FetchAttemptReturns(raw)
    \/ \E raw \in RawOutcomes : FetchAttemptFails(raw)
    \/ FetchBackoffEnds
    \/ FetchCallerClassifies

SpecFetch == InitFetch /\ [][NextFetch]_vars


(***************************************************************************)
(* Pattern analyzer.  A TXT record's data is a sequence of pieces: an      *)
(* optional opening quote, the text, an optional closing quote.  The       *)
(* regular expressions of PARKING_PATTERNS are tabulated on the texts of   *)
(* TxtTexts (PatternTest: does pattern k of the category match the text).  *)
(***************************************************************************)
TxtTexts ==
    { "v=spf1 -all",
      "v=spf1 include:_spf.google.com ~all",
      "v=DKIM1; p=",
      "v=DMARC1; p=reject",
      "parking_verification=sedoparking",
      "SedoParking",
      "premium-domain",
      "domain-for-sale via domainbroker",
      "google-site-verification=abc123",
      "ms=ms12345678",
      "hello world" }

\* PARKING_PATTERNS: each regular expression is the set of the texts of TxtTexts
\* it matches (flag i), in the order of the source.
PARKING_PATTERNS ==
    [ SPF |-> << {"v=spf1 -all"},
               {"v=spf1 -all"} >>,
      DKIM |-> << {"v=DKIM1; p="},
                {"v=DKIM1; p="},
                {} >>,
      DMARC |-> << {"v=DMARC1; p=reject"},
                 {},
                 {} >>,
      REGISTRAR |-> << {"parking_verification=sedoparking"},
                     {},
                     {"parking_verification=sedoparking", "SedoParking"},
                     {},
                     {} >>,
      PREMIUM |-> << {"premium-domain"},
                   {"domain-for-sale via domainbroker"},
                   {},
                   {"domain-for-sale via domainbroker"},
                   {} >>,
      ACTIVE_USAGE |-> << {"google-site-verification=abc123"},
                        {"ms=ms12345678"},
                        {},
                        {},
                        {},
                        {} >> ]

\* PARKING_PATTERNS[category].length
PatternCount(category) == Len(PARKING_PATTERNS[category])

\* pattern.test(txtData), pattern = PARKING_PATTERNS[category][k-1]
PatternTest(category, k, text) == text \in PARKING_PATTERNS[category][k]

\* txtData.includes(lit), case-sensitive
TextIncludes(text, lit) ==
    CASE lit = "parkingcrew" -> text \in {}
      [] lit = "sedoparking" -> text \in {"parking_verification=sedoparking"}
      [] lit = "domain_control_validation" -> text \in {}
      [] OTHER -> FALSE

\* record.data.trim().replace(/^"|"$/g, '')
StripQuotes(d) ==
    LET a == IF Len(d) > 0 /\ d[1] = "\"" THEN Tail(d) ELSE d
    IN IF Len(a) > 0 /\ a[Len(a)] = "\"" THEN SubSeq(a, 1, Len(a) - 1) ELSE a

TextOf(d) == IF Len(StripQuotes(d)) = 1 THEN StripQuotes(d)[1] ELSE ""

\* A record's owner name is its sequence of labels.
NameIncludesDomainkey(name) == \E i \in 1..Len(name) : name[i] = "_domainkey"
NameIsDmarc(name) == Len(name) >= 1 /\ name[1] = "_dmarc"
NameIsWildcard(name) ==
    \/ Len(name) >= 2 /\ name[1] = "*"
    \/ \E i \in 2..Len(name) : name[i] = "*"

\* The description testPattern adds for pattern k of a category, "" for none.
PatternDescription(category, k, name, txtData) ==
    CASE category = "SPF" -> "Restrictive SPF Policy (-all)"
      [] category = "DKIM" ->
            IF NameIncludesDomainkey(name) THEN "Null DKIM Configuration" ELSE ""
      [] category = "DMARC" ->
            IF NameIsDmarc(name) THEN "Restrictive DMARC Policy" ELSE ""
      [] category = "REGISTRAR" ->
            IF TextIncludes(txtData, "parkingcrew") THEN "ParkingCrew Parking Service"
            ELSE IF TextIncludes(txtData, "sedoparking") THEN "Sedo Parking Service"
            ELSE IF TextIncludes(txtData, "domain_control_validation") THEN "Domain Control Validation"
            ELSE "Registrar Parking Marker"
      [] category = "PREMIUM" ->
            CASE k = 1 -> "Premium Domain Marker"
              [] k = 2 -> "Domain For Sale Marker"
              [] k = 3 -> "Domain Purchase Inquiry"
              [] k = 4 -> "Domain Broker Reference"
              [] OTHER -> "Reserved Domain"
      [] category = "ACTIVE_USAGE" ->
            CASE k = 1 -> "Google Site Verification"
              [] k = 2 -> "Microsoft Verification"
              [] k = 3 -> "Facebook Domain Verification"
              [] k = 4 -> "Apple Domain Verification"
              [] k = 5 -> "DocuSign Verification"
              [] OTHER -> "Stripe Verification"

Categories == {"SPF", "DKIM", "DMARC", "REGISTRAR", "PREMIUM", "ACTIVE_USAGE"}

\* The TXT records of an answer the forEach looks at.
TxtRecords(data) ==
    {i \in 1..Len(data.Answer) : data.Answer[i].type = DNS_RECORD_TYPE_TXT}

\* Some TXT record matches some pattern of the category (and, for DKIM and
\* DMARC, sits on the right owner name): the has... flag of the category.
CategoryFlag(data, category) ==
    \E i \in TxtRecords(data) : \E k \in 1..PatternCount(category) :
        /\ PatternTest(category, k, TextOf(data.Answer[i].data))
        /\ (category = "DKIM" => NameIncludesDomainkey(ToLowerCase(data.Answer[i].name)))
        /\ (category = "DMARC" => NameIsDmarc(ToLowerCase(data.Answer[i].name)))

\* The patterns of PARKING_PATTERNS: category and position.
PatternIds == { x \in Categories \X (1..6) : x[2] <= PatternCount(x[1]) }

PatternsFound(data) ==
    ({ PatternDescription(c[1][1], c[1][2], ToLowerCase(data.Answer[c[2]].name),
                          TextOf(data.Answer[c[2]].data)) :
         c \in { x \in PatternIds \X TxtRecords(data) :
                   PatternTest(x[1][1], x[1][2], TextOf(data.Answer[x[2]].data)) } }
      \cup (IF \E i \in TxtRecords(data) : NameIsWildcard(ToLowerCase(data.Answer[i].name))
            THEN {"Wildcard DNS Protection"} ELSE {}))
    \ {""}

\* A mutant of Math.min: the first argument, not capped.
MinUncapped(a, b) == a

Min(a, b) == IF a <= b THEN a ELSE b
Max(a, b) == IF a >= b THEN a ELSE b

\* A mutant of the analyzer: the active-usage markers are not looked for.
analyzeTxtRecordsForParkingNoActive(data) ==
    [isParked |-> FALSE, isPremium |-> FALSE, confidence |-> 0,
     matchedPatterns |-> {}, hasActiveUsageIndicators |-> FALSE]

\* The end of analyzeTxtRecordsForParking: the confidence score (additive,
\* capped at 100), isParked, isPremium, and the record returned.
TxtAnalysis(hasSpf, hasDkim, hasDmarc, hasWildcard, hasRegistrarMarker, hasPremiumMarker, hasVerificationTxt, patternsFound) ==
    LET confidence == Min((IF hasSpf THEN 25 ELSE 0) + (IF hasDkim THEN 20 ELSE 0)
                          + (IF hasDmarc THEN 15 ELSE 0) + (IF hasWildcard THEN 15 ELSE 0)
                          + (IF hasRegistrarMarker THEN 30 ELSE 0), 100)
    IN [isParked |-> confidence >= 40,
        isPremium |-> hasPremiumMarker
                      \/ (confidence >= 40 /\ confidence >= 70
                          /\ ("Domain For Sale Marker" \in patternsFound
                              \/ "Domain Broker Reference" \in patternsFound)),
        confidence |-> confidence,
        matchedPatterns |-> patternsFound,
        hasActiveUsageIndicators |-> hasVerificationTxt]

analyzeTxtRecordsForParking(data) ==
    IF Len(data.Answer) = 0
    THEN [isParked |-> FALSE, isPremium |-> FALSE, confidence |-> 0,
          matchedPatterns |-> {}, hasActiveUsageIndicators |-> FALSE]
    ELSE TxtAnalysis(CategoryFlag(data, "SPF"),
                     CategoryFlag(data, "DKIM"),
                     CategoryFlag(data, "DMARC"),
                     \E i \in TxtRecords(data) : NameIsWildcard(ToLowerCase(data.Answer[i].name)),
                     CategoryFlag(data, "REGISTRAR"),
                     CategoryFlag(data, "PREMIUM"),
                     CategoryFlag(data, "ACTIVE_USAGE"),
                     PatternsFound(data))

(***************************************************************************)
(* Known parking nameservers (stored in lower case).                       *)
(***************************************************************************)
PARKING_NAMESERVERS ==
    { "above.com", "afternic.com", "alter.com", "bodis.com", "bookmyname.com",
      "brainydns.com", "brandbucket.com", "chookdns.com", "cnomy.com", "commonmx.com",
      "dan.com", "day.biz", "dingodns.com", "directnic.com", "dne.com", "dnslink.com",
      "dnsnuts.com", "dnsowl.com", "dnsspark.com", "domain-for-sale.at",
      "domain-for-sale.se", "domaincntrol.com", "domainhasexpired.com", "domainist.com",
      "domainmarket.com", "domainmx.com", "domainorderdns.nl", "domainparking.ru",
      "domainprofi.de", "domainrecover.com", "dsredirection.com", "dsredirects.com",
      "eftydns.com", "emailverification.info", "emu-dns.com", "expiereddnsmanager.com",
      "expirationwarning.net", "expired.uniregistry-dns.com", "fabulous.com",
      "failed-whois-verification.namecheap.com.", "fastpark.net", "freenom.com",
      "gname.net", "hastydns.com", "hostresolver.com", "ibspark.com", "kirklanddc.com",
      "koaladns.com", "magpiedns.com", "malkm.com", "markmonitor.com", "mijndomein.nl",
      "milesmx.com", "mytrafficmanagement.com", "name.com", "namedynamics.net",
      "nameprovider.net", "ndsplitter.com", "ns01.cashparking.com", "ns02.cashparking.com",
      "ns1.domain-is-4-sale-at-domainmarket.com", "ns1.domain.io", "ns1.namefind.com",
      "ns1.park.do", "ns1.parkingcrew.net", "ns1.pql.net", "ns1.sedoparking.com",
      "ns1.smartname.com", "ns1.sonexo.eu", "ns1.undeveloped.com", "ns2.domain.io",
      "ns2.domainmarket.com", "ns2.namefind.com", "ns2.park.do", "ns2.parkingcrew.net",
      "ns2.pql.net", "ns2.sedoparking.com", "ns2.smartname.com", "ns2.sonexo.com",
      "ns2.undeveloped.com", "ns3.tppns.com", "ns4.tppns.com", "nsresolution.com",
      "one.com", "onlydomains.com", "panamans.com", "park1.encirca.net",
      "park2.encirca.net", "parkdns1.internetvikings.com", "parkdns2.internetvikings.com",
      "parking-page.net", "parking.namecheap.com", "parking1.ovh.net", "parking2.ovh.net",
      "parkingcrew.net", "parkingpage.namecheap.com", "parkingspa.com", "parklogic.com",
      "parktons.com", "perfectdomain.com", "quokkadns.com", "redirectdom.com",
      "redmonddc.com", "registrar-servers.com", "renewyourname.net", "rentondc.com",
      "rookdns.com", "rzone.de", "sav.com", "searchfusion.com", "searchreinvented.com",
      "securetrafficrouting.com", "sedo.com", "sedoparking.com", "smtmdns.com",
      "snparking.ru", "squadhelp.com", "sslparking.com", "tacomadc.com", "taipandns.com",
      "thednscloud.com", "torresdns.com", "trafficcontrolrouter.com", "trustednam.es",
      "uniregistrymarket.link", "verify-contact-details.namecheap.com.", "voodoo.com",
      "weaponizedcow.com", "wombatdns.com", "wordpress.com",
      "www.undeveloped.com----type.in", "your-browser.this-domain.eu", "ztomy.com",
      "dns1.registrar-servers.com", "dns2.registrar-servers.com" }

\* record.data.toLowerCase().replace(/\.$/, ''): a nameserver's data is the host
\* name, followed by "." when it carries the trailing dot.
ToLowerHost(h) ==
    CASE h = "NS1.SEDOPARKING.COM" -> "ns1.sedoparking.com"
      [] h = "Ns1.ParkingCrew.Net" -> "ns1.parkingcrew.net"
      [] h = "NS1.EXAMPLE-DNS.COM" -> "ns1.example-dns.com"
      [] h = "ABOVE.COM" -> "above.com"
      [] h = "Above.Com" -> "above.com"
      [] h = "FAILED-WHOIS-VERIFICATION.NAMECHEAP.COM" -> "failed-whois-verification.namecheap.com"
      [] OTHER -> h

NormalizeNs(d) ==
    LET l == [i \in 1..Len(d) |-> ToLowerHost(d[i])]
    IN IF Len(l) > 0 /\ l[Len(l)] = "." THEN SubSeq(l, 1, Len(l) - 1) ELSE l

IsParkingNs(d) == Len(NormalizeNs(d)) = 1 /\ NormalizeNs(d)[1] \in PARKING_NAMESERVERS


(***************************************************************************)
(* Domains and links.  A domain is its sequence of labels.                 *)
(***************************************************************************)
KNOWN_WILDCARD_TLDS ==
    { <<"tk">>, <<"ml">>, <<"ga">>, <<"cf">>, <<"gq">>, <<"to">>, <<"cc">>, <<"ws">>, <<"pw">> }

\* utils/tlds: namecheapTLDs, the entries the model's TLDs can meet.
namecheapTLDs == { <<"com">>, <<"org">>, <<"net">>, <<"io">>, <<"co", "uk">>, <<"dev">> }

\* domain.substring(domain.indexOf('.')): everything from the first dot; the
\* whole domain when it has no dot (indexOf gives -1, substring clamps to 0).
TldOf(domain) == IF Len(domain) > 1 THEN Tail(domain) ELSE domain

\* '.' + domain.split('.').pop()
LastLabelTld(domain) == << domain[Len(domain)] >>

\* domain.startsWith('http'): the first label begins with the letters http.
StartsWithHttp(domain) == Len(domain) > 0 /\ domain[1] \in {"http", "https", "httpbin"}

generateLink(domain, status) ==
    LET tld == LastLabelTld(domain)
        registrarBaseUrl == IF tld \in namecheapTLDs
                            THEN "https://www.namecheap.com/domains/registration/results/?domain="
                            ELSE "https://domainr.com/"
    IN CASE status = "registered" ->
               IF StartsWithHttp(domain) THEN domain ELSE <<"http://">> \o domain
         [] status = "premium" ->
               IF tld \in namecheapTLDs THEN <<registrarBaseUrl>> \o domain
               ELSE <<"https://dan.com/buy-domain/">> \o domain
         [] status = "available" -> <<registrarBaseUrl>> \o domain
         [] OTHER -> <<"https://domainr.com/">> \o domain

(***************************************************************************)
(* interpretCombinedResults.                                               *)
(***************************************************************************)
Fulfilled(v, prov, qt) ==
    [status |-> "fulfilled", value |-> v, provider |-> prov, queryType |-> qt]

Rejected(e, prov, qt, c, suggests) ==
    [status |-> "rejected", reason |-> e, provider |-> prov, queryType |-> qt,
     errorCategory |-> c.category, errorMessage |-> c.message,
     suggestsDomainExists |-> suggests]

IsFulfilled(r) == r.status = "fulfilled"

\* data.Answer?.some(NS or SOA) || data.Authority?.some(NS or SOA)
hasNsOrSoaRecordsAnswerOnly(data) ==
    \E i \in 1..Len(data.Answer) :
         data.Answer[i].type \in {DNS_RECORD_TYPE_NS, DNS_RECORD_TYPE_SOA}

hasNsOrSoaRecords(data) ==
    \/ \E i \in 1..Len(data.Answer) :
         data.Answer[i].type \in {DNS_RECORD_TYPE_NS, DNS_RECORD_TYPE_SOA}
    \/ \E i \in 1..Len(data.Authority) :
         data.Authority[i].type \in {DNS_RECORD_TYPE_NS, DNS_RECORD_TYPE_SOA}

\* providerReportsParkedNs for one result
ReportsParkedNs(r) ==
    /\ IsFulfilled(r)
    /\ r.value.Status = DNS_STATUS_NOERROR
    /\ r.queryType = DNS_RECORD_TYPE_NS
    /\ \E i \in 1..Len(r.value.Answer) :
          /\ r.value.Answer[i].type = DNS_RECORD_TYPE_NS
          /\ IsParkingNs(r.value.Answer[i].data)

IsTxtAnalysed(r) ==
    /\ IsFulfilled(r)
    /\ r.value.Status = DNS_STATUS_NOERROR
    /\ r.queryType = DNS_RECORD_TYPE_TXT

QueryTypeText(qt) ==
    IF qt = DNS_RECORD_TYPE_NS THEN "NS"
    ELSE IF qt = DNS_RECORD_TYPE_SOA THEN "SOA" ELSE "TXT"

primaryProviderNames ==
    {ProviderName(PRIMARY_PROVIDER_URLS[i]) : i \in 1..Len(PRIMARY_PROVIDER_URLS)}

PrimaryMark(provider) == IF provider \in primaryProviderNames THEN "(Primary)" ELSE ""

\* What the passes of providerResults.forEach from result i on push on reasons.
RECURSIVE ReasonsFrom(_, _)
ReasonsFrom(prs, i) ==
    IF i > Len(prs) THEN <<>>
    ELSE LET r == prs[i]
             head ==
               IF IsFulfilled(r)
               THEN << <<"Provider", r.provider, PrimaryMark(r.provider), QueryTypeText(r.queryType),
                         DNS_STATUS_MESSAGES(r.value.Status)>> \o r.value.Comment >>
                    \o (IF r.value.Status = DNS_STATUS_NOERROR
                        THEN (IF hasNsOrSoaRecords(r.value)
                              THEN << <<"->", "Found NS/SOA records.">> >>
                              ELSE << <<"->", "No confirming NS/SOA records found despite NOERROR.">> >>)
                             \o (IF ReportsParkedNs(r)
                                 THEN << <<"->", "Found parking nameserver">> >> ELSE <<>>)
                             \o (IF r.queryType = DNS_RECORD_TYPE_TXT
                                 THEN LET analysis == analyzeTxtRecordsForParking(r.value) IN
                                      (IF analysis.matchedPatterns # {}
                                       THEN << <<"->", "Found patterns">> >> ELSE <<>>)
                                      \o (IF analysis.hasActiveUsageIndicators
                                          THEN << <<"->", "Found active domain usage indicators (verifications)">> >>
                                          ELSE <<>>)
                                 ELSE <<>>)
                        ELSE IF r.value.Status \in {DNS_STATUS_NXDOMAIN, DNS_STATUS_SERVFAIL}
                        THEN <<>>
                        ELSE << <<"->", "DNS error code">> >>)
                    \o (IF r.value.AD THEN << <<"->", "DNSSEC validated (AD flag).">> >> ELSE <<>>)
               ELSE << <<"Provider", r.provider, PrimaryMark(r.provider), QueryTypeText(r.queryType),
                         "Error -">> \o r.errorMessage >>
                    \o (IF r.suggestsDomainExists
                        THEN << <<"->", "This error type sometimes occurs with registered domains.">> >>
                        ELSE <<>>)
         IN head \o ReasonsFrom(prs, i + 1)


Count(prs, P(_)) == Cardinality({i \in 1..Len(prs) : P(prs[i])})

\* A mutant: the consensus requires every provider.
ConsensusThresholdUnanimous(distinct) == Max(1, distinct)

\* Math.max(1, Math.ceil(distinctProviderResponses / 2))
ConsensusThreshold(distinct) == Max(1, (distinct + 1) \div 2)

\* txtAnalysisResults keeps one analysis per provider, that of its last analysed
\* TXT response: the indexes of those responses.
TxtAnalysisIndexes(prs) ==
    { j \in 1..Len(prs) :
        /\ IsTxtAnalysed(prs[j])
        /\ \A k \in (j+1)..Len(prs) :
              ~(IsTxtAnalysed(prs[k]) /\ prs[k].provider = prs[j].provider) }

\* data.Status === DNS_STATUS_NXDOMAIN
\* A mutant: the status is compared with the wrong code.
IsNxDomainWrongCode(r) == IsFulfilled(r) /\ r.value.Status = DNS_STATUS_SERVFAIL

IsNxDomain(r) == IsFulfilled(r) /\ r.value.Status = DNS_STATUS_NXDOMAIN

\* The consensus section: the threshold and the signals derived from the
\* counts of the forEach.
Consensus(counts, isWild, parkedTxt, premiumTxt) ==
    [nxDomainCount |-> counts.nxDomainCount,
     noErrorWithRecordsCount |-> counts.noErrorWithRecordsCount,
     noErrorWithoutRecordsCount |-> counts.noErrorWithoutRecordsCount,
     servFailCount |-> counts.servFailCount,
     otherDnsErrorCount |-> counts.otherDnsErrorCount,
     networkOrTimeoutErrorCount |-> counts.networkOrTimeoutErrorCount,
     dnssecValidated |-> counts.dnssecValidated,
     parkedNsCount |-> counts.parkedNsCount,
     hasActiveUsageIndicators |-> counts.hasActiveUsageIndicators,
     totalResponses |-> counts.totalResponses,
     distinctProviderResponses |-> counts.distinctProviderResponses,
     consensusThreshold |-> ConsensusThreshold(counts.distinctProviderResponses),
     parkedTxtConsensusCount |-> parkedTxt,
     premiumTxtConsensusCount |-> premiumTxt,
     hasPremiumTxtSignalConsensus |->
         premiumTxt >= ConsensusThreshold(counts.distinctProviderResponses) /\ premiumTxt > 0,
     hasStrongParkingSignal |->
         \/ counts.parkedNsCount >= ConsensusThreshold(counts.distinctProviderResponses)
         \/ parkedTxt >= ConsensusThreshold(counts.distinctProviderResponses)
         \/ (isWild /\ (counts.parkedNsCount > 0 \/ parkedTxt > 0))]

\* A mutant: a response with a status other than NOERROR, NXDOMAIN and SERVFAIL
\* is not counted as a DNS error.
CountersWithoutDnsCodes(prs, analyses) ==
    [nxDomainCount |-> Count(prs, IsNxDomain),
     noErrorWithRecordsCount |->
         Count(prs, LAMBDA r : IsFulfilled(r) /\ r.value.Status = DNS_STATUS_NOERROR
                                /\ hasNsOrSoaRecords(r.value)),
     noErrorWithoutRecordsCount |->
         Count(prs, LAMBDA r : IsFulfilled(r) /\ r.value.Status = DNS_STATUS_NOERROR
                                /\ ~hasNsOrSoaRecords(r.value)),
     servFailCount |->
         Count(prs, LAMBDA r : IsFulfilled(r) /\ r.value.Status = DNS_STATUS_SERVFAIL),
     otherDnsErrorCount |->
         Count(prs, LAMBDA r : ~IsFulfilled(r) /\ r.errorCategory \notin {"network", "timeout"}),
     networkOrTimeoutErrorCount |->
         Count(prs, LAMBDA r : ~IsFulfilled(r) /\ r.errorCategory \in {"network", "timeout"}),
     dnssecValidated |-> \E i \in 1..Len(prs) : IsFulfilled(prs[i]) /\ prs[i].value.AD,
     parkedNsCount |-> Count(prs, ReportsParkedNs),
     hasActiveUsageIndicators |-> \E a \in analyses : a[2].hasActiveUsageIndicators,
     totalResponses |-> Len(prs),
     distinctProviderResponses |-> Cardinality({prs[i].provider : i \in 1..Len(prs)})]

\* The counters of providerResults.forEach; `analyses` are the analyses of the
\* analysed TXT responses, each with the index of its response.
Counters(prs, analyses) ==
    [nxDomainCount |-> Count(prs, IsNxDomain),
     noErrorWithRecordsCount |->
         Count(prs, LAMBDA r : IsFulfilled(r) /\ r.value.Status = DNS_STATUS_NOERROR
                                /\ hasNsOrSoaRecords(r.value)),
     noErrorWithoutRecordsCount |->
         Count(prs, LAMBDA r : IsFulfilled(r) /\ r.value.Status = DNS_STATUS_NOERROR
                                /\ ~hasNsOrSoaRecords(r.value)),
     servFailCount |->
         Count(prs, LAMBDA r : IsFulfilled(r) /\ r.value.Status = DNS_STATUS_SERVFAIL),
     otherDnsErrorCount |->
         Count(prs, LAMBDA r :
                 \/ IsFulfilled(r) /\ r.value.Status \notin
                       {DNS_STATUS_NXDOMAIN, DNS_STATUS_NOERROR, DNS_STATUS_SERVFAIL}
                 \/ ~IsFulfilled(r) /\ r.errorCategory \notin {"network", "timeout"}),
     networkOrTimeoutErrorCount |->
         Count(prs, LAMBDA r : ~IsFulfilled(r) /\ r.errorCategory \in {"network", "timeout"}),
     dnssecValidated |-> \E i \in 1..Len(prs) : IsFulfilled(prs[i]) /\ prs[i].value.AD,
     parkedNsCount |-> Count(prs, ReportsParkedNs),
     hasActiveUsageIndicators |-> \E a \in analyses : a[2].hasActiveUsageIndicators,
     totalResponses |-> Len(prs),
     distinctProviderResponses |-> Cardinality({prs[i].provider : i \in 1..Len(prs)})]

\* The analyses of the analysed TXT responses, each with the index of its response.
Analyses(prs) ==
    { <<j, analyzeTxtRecordsForParking(prs[j].value)>> :
        j \in {k \in 1..Len(prs) : IsTxtAnalysed(prs[k])} }

\* A mutant: the parking patterns of the TXT analyses are never counted.
TallyFromNoParked(prs, isWild, analyses) ==
    Consensus(Counters(prs, analyses), isWild,
              0,
              Cardinality({a \in analyses : a[1] \in TxtAnalysisIndexes(prs) /\ a[2].isPremium}))

\* A mutant: the premium patterns of the TXT analyses are never counted.
TallyFromNoPremium(prs, isWild, analyses) ==
    Consensus(Counters(prs, analyses), isWild,
              Cardinality({a \in analyses : a[1] \in TxtAnalysisIndexes(prs) /\ a[2].isParked}),
              0)

\* The consensus counts over txtAnalysisResults.
TallyFrom(prs, isWild, analyses) ==
    Consensus(Counters(prs, analyses), isWild,
              Cardinality({a \in analyses : a[1] \in TxtAnalysisIndexes(prs) /\ a[2].isParked}),
              Cardinality({a \in analyses : a[1] \in TxtAnalysisIndexes(prs) /\ a[2].isPremium}))

\* The tallies of the forEach and of the consensus section.
Tally(prs, isWild) == TallyFrom(prs, isWild, Analyses(prs))

\* A mutant: a rejected query is not taken for an error.
IsErrorResultFulfilledOnly(r) ==
    IsFulfilled(r) /\ r.value.Status \notin {DNS_STATUS_NOERROR, DNS_STATUS_NXDOMAIN}

\* primaryErrorCategory / primaryErrorMessage: those of the first result that is
\* a rejection or a response with a status other than NOERROR and NXDOMAIN.
IsErrorResult(r) ==
    \/ ~IsFulfilled(r)
    \/ r.value.Status \notin {DNS_STATUS_NOERROR, DNS_STATUS_NXDOMAIN}

PrimaryError(prs) ==
    IF \E i \in 1..Len(prs) : IsErrorResult(prs[i])
    THEN LET i == CHOOSE k \in 1..Len(prs) :
                     IsErrorResult(prs[k]) /\ \A j \in 1..(k-1) : ~IsErrorResult(prs[j])
             r == prs[i]
         IN IF ~IsFulfilled(r)
            THEN [category |-> r.errorCategory, message |-> r.errorMessage]
            ELSE IF r.value.Status = DNS_STATUS_SERVFAIL
            THEN [category |-> "dns_error",
                  message |-> <<"DNS server failure (SERVFAIL) reported by", r.provider>>]
            ELSE [category |-> "dns_error",
                  message |-> <<"DNS error", DNS_STATUS_MESSAGES(r.value.Status),
                                "reported by", r.provider>>]
    ELSE [category |-> "", message |-> <<>>]

Verdict(st, rs) == [status |-> st, reasons |-> rs]

\* The priority chain: the final status and the reasons it pushes.
Decide(t, isWild, totalErrorsSuggestingDomainExists) ==
    IF t.hasActiveUsageIndicators
    THEN Verdict("registered",
           << <<"High Confidence:", "Found active usage indicators (verification TXT records), domain is in use.">> >>
           \o (IF t.noErrorWithRecordsCount > 0
               THEN << <<"->", "Also confirmed by NS/SOA records.">> >> ELSE <<>>)
           \o (IF t.hasStrongParkingSignal
               THEN << <<"->", "Domain also shows parking signals">> >> ELSE <<>>))
    ELSE IF t.noErrorWithRecordsCount > 0
    THEN Verdict("registered",
           << <<"High Confidence:", "Found authoritative NS/SOA records, indicating the domain is registered.">> >>
           \o (IF t.hasStrongParkingSignal
               THEN << <<"->", "Domain appears potentially parked/premium based on NS/TXT signals.">> >>
               ELSE IF t.hasPremiumTxtSignalConsensus
               THEN << <<"->", "Premium TXT patterns detected by consensus, potentially indicating a premium domain for sale.">> >>
               ELSE <<>>))
    ELSE IF t.nxDomainCount > 0 /\ t.noErrorWithRecordsCount = 0 /\ t.servFailCount = 0
    THEN IF ~isWild /\ t.nxDomainCount >= t.distinctProviderResponses
         THEN IF t.hasPremiumTxtSignalConsensus
              THEN Verdict("indeterminate",
                     << <<"High Confidence:", "All responding providers reported NXDOMAIN (Not Found) without conflicting signals.">>,
                        <<"->", "Warning: Domain appears available (NXDOMAIN), but conflicting Premium TXT patterns were detected. Status uncertain.">> >>)
              ELSE Verdict("available",
                     << <<"High Confidence:", "All responding providers reported NXDOMAIN (Not Found) without conflicting signals.">> >>)
         ELSE IF ~isWild /\ t.nxDomainCount > 0
                 /\ (t.nxDomainCount + t.networkOrTimeoutErrorCount + t.otherDnsErrorCount)
                       >= t.distinctProviderResponses
         THEN IF t.hasPremiumTxtSignalConsensus
              THEN Verdict("indeterminate",
                     << <<"Moderate Confidence:", "At least one provider reported NXDOMAIN with no conflicting registration signals.">>,
                        <<"->", "Warning: Domain appears available (NXDOMAIN), but conflicting Premium TXT patterns were detected. Status uncertain.">> >>)
              ELSE Verdict("available",
                     << <<"Moderate Confidence:", "At least one provider reported NXDOMAIN with no conflicting registration signals.">> >>)
         ELSE IF isWild
         THEN IF t.hasStrongParkingSignal \/ t.hasPremiumTxtSignalConsensus
              THEN Verdict("registered",
                     << <<"Low Confidence:", "NXDOMAIN with wildcard, but strong parking/premium TXT/NS signals suggest it's likely registered/parked.">> >>
                     \o (IF t.hasPremiumTxtSignalConsensus
                         THEN << <<"->", "Premium TXT patterns detected">> >> ELSE <<>>))
              ELSE Verdict("indeterminate",
                     << <<"Low Confidence:", "NXDOMAIN received, but wildcard detection makes status uncertain without parking/premium signals.">> >>)
         ELSE Verdict("indeterminate",
                << <<"Low Confidence:", "Mixed results including NXDOMAIN, status uncertain.">> >>)
    ELSE IF t.hasPremiumTxtSignalConsensus /\ t.noErrorWithRecordsCount = 0 /\ t.nxDomainCount = 0
    THEN Verdict("premium",
           << <<"Moderate Confidence:", "Premium status inferred primarily from consensus on specific TXT records indicating domain is for sale/premium.">> >>
           \o (IF t.hasStrongParkingSignal
               THEN << <<"->", "Parking signals also detected, supporting premium/reserved classification.">> >>
               ELSE <<>>))
    ELSE IF \/ t.servFailCount > 0
            \/ (totalErrorsSuggestingDomainExists >= t.consensusThreshold
                /\ t.distinctProviderResponses > 0)
            \/ (t.hasStrongParkingSignal /\ t.noErrorWithRecordsCount = 0 /\ t.nxDomainCount = 0)
    THEN Verdict("registered",
           IF t.servFailCount > 0
           THEN << <<"Moderate Confidence:", "DNS server failures (SERVFAIL) often occur with registered but misconfigured domains.">> >>
           ELSE IF totalErrorsSuggestingDomainExists >= t.consensusThreshold
           THEN << <<"Moderate Confidence:", "Multiple errors suggesting domain likely exists but has DNS issues.">> >>
           ELSE << <<"Moderate Confidence:", "Strong parking signals without clear NOERROR/NXDOMAIN suggest domain is registered and parked.">> >>)
    ELSE IF t.noErrorWithoutRecordsCount > 0
    THEN Verdict("indeterminate",
           << <<"Low Confidence:", "Received NOERROR status but without confirming NS/SOA records. Status uncertain.">> >>
           \o (IF isWild THEN << <<"->", "Wildcard DNS detected, adding to uncertainty.">> >> ELSE <<>>))
    ELSE IF (t.networkOrTimeoutErrorCount + t.otherDnsErrorCount) = t.totalResponses
            /\ t.totalResponses > 0
    THEN Verdict("error",
           << <<"Error:", "Failed to get conclusive DNS status due to network issues or server errors.">> >>)
    ELSE Verdict(IF (t.networkOrTimeoutErrorCount + t.otherDnsErrorCount + t.servFailCount)
                       = t.totalResponses /\ t.totalResponses > 0
                 THEN "error" ELSE "indeterminate",
           << <<"Indeterminate:", "Could not determine a confident status based on mixed or inconclusive results.">> >>)

\* The DomainResult built at the end of interpretCombinedResults.
DomainResult(domain, providerResults, isWild, isKnownWildcardTld, initialReasons, t, v, pe) ==
    [domain |-> domain,
     status |-> v.status,
     error |-> v.status = "error",
     errorCategory |-> IF v.status = "error" THEN pe.category ELSE "",
     errorMessage |-> IF v.status = "error" THEN pe.message ELSE <<>>,
     link |-> generateLink(domain, v.status),
     confidenceReasons |-> initialReasons \o ReasonsFrom(providerResults, 1) \o v.reasons,
     dnssecValidated |-> t.dnssecValidated,
     wildcardDetected |-> isWild \/ isKnownWildcardTld,
     isParkedByNs |-> t.parkedNsCount >= t.consensusThreshold,
     isParkedByTxt |-> t.parkedTxtConsensusCount >= t.consensusThreshold]

\* interpretCombinedResults, given the tallies.
InterpretTally(domain, providerResults, isWild, isKnownWildcardTld, totalErrorsSuggestingDomainExists, initialReasons, t) ==
    DomainResult(domain, providerResults, isWild, isKnownWildcardTld, initialReasons, t,
                 Decide(t, isWild, totalErrorsSuggestingDomainExists),
                 PrimaryError(providerResults))

interpretCombinedResults(domain, providerResults, isWild, isKnownWildcardTld, totalErrorsSuggestingDomainExists, initialReasons) ==
    InterpretTally(domain, providerResults, isWild, isKnownWildcardTld,
                   totalErrorsSuggestingDomainExists, initialReasons,
                   Tally(providerResults, isWild))


(***************************************************************************)
(* checkWildcardDNS and checkDomainAvailability.                           *)
(***************************************************************************)
\* getNextProviderUrl: the url at the cursor; the cursor moves on, modulo.
NextProviderUrl(index) == DOH_PROVIDER_URLS[index + 1]
\* A mutant: the cursor wraps one provider early.
NextProviderIndexWrapsEarly(index) == (index + 1) % (Len(DOH_PROVIDER_URLS) - 1)

NextProviderIndex(index) == (index + 1) % Len(DOH_PROVIDER_URLS)

\* The cursor after n calls of getNextProviderUrl.
RECURSIVE CursorAfter(_, _)
CursorAfter(index, n) == IF n = 0 THEN index ELSE CursorAfter(NextProviderIndex(index), n - 1)

\* A mutant of isWildcardDetected: any answer record counts.
isWildcardDetectedAnyAnswer(data) == data.Status = DNS_STATUS_NOERROR /\ Len(data.Answer) > 0

\* isWildcardDetected of checkWildcardDNS
isWildcardDetected(data) ==
    /\ data.Status = DNS_STATUS_NOERROR
    /\ \E i \in 1..Len(data.Answer) :
          data.Answer[i].type \in {DNS_RECORD_TYPE_A, DNS_RECORD_TYPE_CNAME, DNS_RECORD_TYPE_AAAA}

\* needSoaFallback: every NS result is rejected, or fulfilled with a status that
\* is neither NOERROR nor NXDOMAIN.
\* A mutant: one inconclusive NS result is enough.
needSoaFallbackSome(settled) ==
    \E i \in 1..Len(settled) :
        /\ settled[i].queryType = DNS_RECORD_TYPE_NS
        /\ \/ settled[i].status = "rejected"
           \/ /\ settled[i].status = "fulfilled"
              /\ settled[i].value.Status # DNS_STATUS_NOERROR
              /\ settled[i].value.Status # DNS_STATUS_NXDOMAIN

needSoaFallback(settled) ==
    \A i \in 1..Len(settled) :
        settled[i].queryType = DNS_RECORD_TYPE_NS =>
           \/ settled[i].status = "rejected"
           \/ /\ settled[i].status = "fulfilled"
              /\ settled[i].value.Status # DNS_STATUS_NOERROR
              /\ settled[i].value.Status # DNS_STATUS_NXDOMAIN

\* The model's sample answers.
BaseName == "example"
CheckTlds == { <<"com">>, <<"tk">> }
Domain(tld) == <<BaseName>> \o tld

SoaRecord == RR(<<"example", "com">>, DNS_RECORD_TYPE_SOA, <<"ns1.example-dns.com. hostmaster.example.com. 1 7200 900 1209600 86400">>)
TldSoaRecord == RR(<<"com">>, DNS_RECORD_TYPE_SOA, <<"a.gtld-servers.net. nstld.verisign-grs.com. 1 1800 900 604800 86400">>)
NsRecord(host) == RR(<<"example", "com">>, DNS_RECORD_TYPE_NS, host)
TxtRecord(name, text) == RR(name, DNS_RECORD_TYPE_TXT, <<"\"", text, "\"">>)

Json(d) == [kind |-> "json", data |-> d]

RespNxDomain == Resp(DNS_STATUS_NXDOMAIN, TRUE, <<>>, <<TldSoaRecord>>)
RespServFail == Resp(DNS_STATUS_SERVFAIL, FALSE, <<>>, <<>>)
RespRefused == Resp(DNS_STATUS_REFUSED, FALSE, <<>>, <<>>)
RespEmpty == Resp(DNS_STATUS_NOERROR, FALSE, <<>>, <<>>)
RespNoData == Resp(DNS_STATUS_NOERROR, FALSE, <<>>, <<SoaRecord>>)
RespNs == Resp(DNS_STATUS_NOERROR, FALSE,
               <<NsRecord(<<"NS1.EXAMPLE-DNS.COM", ".">>), NsRecord(<<"ns2.example-dns.com">>)>>, <<>>)
RespParkedNs == Resp(DNS_STATUS_NOERROR, FALSE,
               <<NsRecord(<<"NS1.SEDOPARKING.COM", ".">>), NsRecord(<<"ns2.sedoparking.com">>)>>, <<>>)
RespSoa == Resp(DNS_STATUS_NOERROR, FALSE, <<SoaRecord>>, <<>>)
RespTxtActive == Resp(DNS_STATUS_NOERROR, FALSE,
               <<TxtRecord(<<"example", "com">>, "google-site-verification=abc123")>>, <<>>)
RespTxtPremium == Resp(DNS_STATUS_NOERROR, FALSE,
               <<TxtRecord(<<"example", "com">>, "premium-domain")>>, <<>>)
RespTxtParked == Resp(DNS_STATUS_NOERROR, FALSE,
               <<TxtRecord(<<"example", "com">>, "v=spf1 -all"),
                 TxtRecord(<<"example", "com">>, "parking_verification=sedoparking")>>, <<>>)
RespA == Resp(DNS_STATUS_NOERROR, FALSE,
               <<RR(<<"check-random", "example", "com">>, DNS_RECORD_TYPE_A, <<"192.0.2.1">>)>>, <<>>)

RawTimeout == [kind |-> "abort"]
RawGatewayTimeout == [kind |-> "http", code |-> "504", statusText |-> <<"Gateway", "Timeout">>]

ProbeRaws == { Json(RespNxDomain), Json(RespA), Json(RespEmpty), RawTimeout }
NsRaws == { Json(RespNxDomain), Json(RespNs), Json(RespParkedNs), Json(RespEmpty),
            Json(RespServFail), Json(RespRefused), RawTimeout, RawGatewayTimeout }
TxtRaws == { Json(RespNxDomain), Json(RespEmpty), Json(RespNoData), Json(RespTxtActive),
             Json(RespTxtPremium), Json(RespTxtParked), RawTimeout }
SoaRaws == { Json(RespNxDomain), Json(RespSoa), Json(RespServFail), RawTimeout }

\* The four NS/TXT queries, in the order of queryPromises.
NsTxtQueries ==
    << [url |-> PRIMARY_PROVIDER_URLS[1], queryType |-> DNS_RECORD_TYPE_NS],
       [url |-> PRIMARY_PROVIDER_URLS[1], queryType |-> DNS_RECORD_TYPE_TXT],
       [url |-> PRIMARY_PROVIDER_URLS[2], queryType |-> DNS_RECORD_TYPE_NS],
       [url |-> PRIMARY_PROVIDER_URLS[2], queryType |-> DNS_RECORD_TYPE_TXT] >>

SoaQueries ==
    [i \in 1..Len(PRIMARY_PROVIDER_URLS) |->
        [url |-> PRIMARY_PROVIDER_URLS[i], queryType |-> DNS_RECORD_TYPE_SOA]]

RawsFor(queryType) ==
    IF queryType = DNS_RECORD_TYPE_NS THEN NsRaws
    ELSE IF queryType = DNS_RECORD_TYPE_TXT THEN TxtRaws ELSE SoaRaws

\* The .then / .catch of one query promise: the ProviderOutcome it resolves to.
\* A TXT failure never counts as suggesting that the domain exists.
QueryOutcome(q, raw) ==
    LET o == AttemptOutcome(raw, q.url) IN
    IF o.ok THEN Fulfilled(o.data, ProviderName(q.url), q.queryType)
    ELSE Rejected(o.error, ProviderName(q.url), q.queryType, handleError(o.error),
                  IF q.queryType = DNS_RECORD_TYPE_TXT THEN FALSE
                  ELSE handleError(o.error).suggestsDomainExists)

AllSettled(ps) == \A i \in 1..Len(ps) : ps[i] # None

InitCheck ==
    /\ cPc = "start"
    /\ cTld \in CheckTlds
    /\ currentProviderIndex = 0
    /\ probeUrl = ""
    /\ isWildcard = FALSE
    /\ initialConfidenceReasons = <<>>
    /\ nsTxt = <<>>
    /\ soa = <<>>
    /\ errorsIndicatingDomainExists = 0
    /\ cResult = None
    /\ FetchOff
    /\ BatchOff
    /\ PureOff /\ WorkerOff

\* checkDomainAvailability(domain) up to its first await: the known-wildcard-TLD
\* reason, then checkWildcardDNS takes the provider at the cursor and sends the probe.
CheckStart ==
    /\ cPc = "start"
    /\ initialConfidenceReasons' =
          IF TldOf(Domain(cTld)) \in KNOWN_WILDCARD_TLDS
          THEN << <<"Domain uses TLD known to commonly implement wildcards.">> >>
          ELSE <<>>
    /\ probeUrl' = NextProviderUrl(currentProviderIndex)
    /\ currentProviderIndex' = NextProviderIndex(currentProviderIndex)
    /\ cPc' = "wildcard"
    /\ UNCHANGED <<cTld, isWildcard, nsTxt, soa, errorsIndicatingDomainExists, cResult, fetchVars, batchVars, pureVars, workerVars>>

\* A mutant: the try/catch around checkWildcardDNS is missing, so a failed probe
\* ends the check with an exception.
ProbeSettlesThrows(raw) ==
    /\ cPc = "wildcard"
    /\ LET o == AttemptOutcome(raw, probeUrl) IN
       IF o.ok
       THEN /\ isWildcard' = isWildcardDetected(o.data)
            /\ nsTxt' = [i \in 1..Len(NsTxtQueries) |-> None]
            /\ cPc' = "nstxt"
       ELSE /\ isWildcard' = FALSE
            /\ nsTxt' = nsTxt
            /\ cPc' = "done"
    /\ UNCHANGED <<cTld, currentProviderIndex, probeUrl, soa, errorsIndicatingDomainExists,
                   initialConfidenceReasons, cResult, fetchVars, batchVars, pureVars, workerVars>>

\* The probe settles: isWildcard or the failure is recorded, and the four NS/TXT
\* queries are issued.
ProbeSettles(raw) ==
    /\ cPc = "wildcard"
    /\ LET o == AttemptOutcome(raw, probeUrl) IN
       IF o.ok
       THEN /\ isWildcard' = isWildcardDetected(o.data)
            /\ initialConfidenceReasons' =
                 IF isWildcardDetected(o.data)
                 THEN Append(initialConfidenceReasons,
                             <<"Wildcard DNS detected (often used for parking/catch-alls).">>)
                 ELSE initialConfidenceReasons
       ELSE /\ isWildcard' = FALSE
            /\ initialConfidenceReasons' =
                 Append(initialConfidenceReasons,
                        <<"Wildcard detection failed:">> \o handleError(o.error).message)
    /\ nsTxt' = [i \in 1..Len(NsTxtQueries) |-> None]
    /\ cPc' = "nstxt"
    /\ UNCHANGED <<cTld, currentProviderIndex, probeUrl, soa, errorsIndicatingDomainExists,
                   cResult, fetchVars, batchVars, pureVars, workerVars>>

\* A mutant: the query promises have no .catch, so the first failure rejects
\* Promise.all and ends the check without the other outcomes.
NsTxtSettlesFailFast(i, raw) ==
    /\ cPc = "nstxt"
    /\ nsTxt[i] = None
    /\ raw \in RawsFor(NsTxtQueries[i].queryType)
    /\ nsTxt' = [nsTxt EXCEPT ![i] = QueryOutcome(NsTxtQueries[i], raw)]
    /\ cPc' = IF QueryOutcome(NsTxtQueries[i], raw).status = "rejected" THEN "done" ELSE cPc
    /\ UNCHANGED <<cTld, currentProviderIndex, probeUrl, isWildcard, errorsIndicatingDomainExists,
                   initialConfidenceReasons, soa, cResult, fetchVars, batchVars, pureVars, workerVars>>

\* One of the NS/TXT promises settles.
NsTxtSettles(i, raw) ==
    /\ cPc = "nstxt"
    /\ nsTxt[i] = None
    /\ raw \in RawsFor(NsTxtQueries[i].queryType)
    /\ nsTxt' = [nsTxt EXCEPT ![i] = QueryOutcome(NsTxtQueries[i], raw)]
    /\ errorsIndicatingDomainExists' =
          IF QueryOutcome(NsTxtQueries[i], raw).status = "rejected"
             /\ QueryOutcome(NsTxtQueries[i], raw).suggestsDomainExists
          THEN errorsIndicatingDomainExists + 1 ELSE errorsIndicatingDomainExists
    /\ UNCHANGED <<cPc, cTld, currentProviderIndex, probeUrl, isWildcard,
                   initialConfidenceReasons, soa, cResult, fetchVars, batchVars, pureVars, workerVars>>

\* A mutant: the classifier takes a non-empty evidence list for a wildcard.
InterpretReadsEvidence(settled, reasons) ==
    interpretCombinedResults(Domain(cTld), settled, isWildcard \/ Len(reasons) > 0,
                             TldOf(Domain(cTld)) \in KNOWN_WILDCARD_TLDS,
                             errorsIndicatingDomainExists, reasons)

Interpret(settled, reasons) ==
    interpretCombinedResults(Domain(cTld), settled, isWildcard,
                             TldOf(Domain(cTld)) \in KNOWN_WILDCARD_TLDS,
                             errorsIndicatingDomainExists, reasons)

\* await Promise.all(queryPromises) resumes; the NS results are inconclusive:
\* one SOA query per primary provider is issued.
JoinNeedsSoa ==
    /\ cPc = "nstxt"
    /\ AllSettled(nsTxt)
    /\ needSoaFallback(nsTxt)
    /\ initialConfidenceReasons' =
          Append(initialConfidenceReasons,
                 <<"NS/TXT queries were inconclusive, falling back to SOA check.">>)
    /\ soa' = [i \in 1..Len(SoaQueries) |-> None]
    /\ cPc' = "soa"
    /\ UNCHANGED <<cTld, currentProviderIndex, probeUrl, isWildcard, nsTxt,
                   errorsIndicatingDomainExists, cResult, fetchVars, batchVars, pureVars, workerVars>>

\* await Promise.all(queryPromises) resumes; no fallback: interpret.
JoinInterprets ==
    /\ cPc = "nstxt"
    /\ AllSettled(nsTxt)
    /\ ~needSoaFallback(nsTxt)
    /\ cResult' = Interpret(nsTxt, initialConfidenceReasons)
    /\ cPc' = "done"
    /\ UNCHANGED <<cTld, currentProviderIndex, probeUrl, isWildcard, nsTxt, soa,
                   initialConfidenceReasons, errorsIndicatingDomainExists, fetchVars, batchVars, pureVars, workerVars>>

\* One of the SOA promises settles.
SoaSettles(i, raw) ==
    /\ cPc = "soa"
    /\ soa[i] = None
    /\ raw \in SoaRaws
    /\ soa' = [soa EXCEPT ![i] = QueryOutcome(SoaQueries[i], raw)]
    /\ errorsIndicatingDomainExists' =
          IF QueryOutcome(SoaQueries[i], raw).status = "rejected"
             /\ QueryOutcome(SoaQueries[i], raw).suggestsDomainExists
          THEN errorsIndicatingDomainExists + 1 ELSE errorsIndicatingDomainExists
    /\ UNCHANGED <<cPc, cTld, currentProviderIndex, probeUrl, isWildcard,
                   initialConfidenceReasons, nsTxt, cResult, fetchVars, batchVars, pureVars, workerVars>>

\* await Promise.all(soaPromises) resumes: interpret NS, TXT and SOA results.
SoaJoinInterprets ==
    /\ cPc = "soa"
    /\ AllSettled(soa)
    /\ cResult' = Interpret(nsTxt \o soa, initialConfidenceReasons)
    /\ cPc' = "done"
    /\ UNCHANGED <<cTld, currentProviderIndex, probeUrl, isWildcard, nsTxt, soa,
                   initialConfidenceReasons, errorsIndicatingDomainExists, fetchVars, batchVars, pureVars, workerVars>>

NextCheck ==
    \/ CheckStart
    \/ \E raw \in ProbeRaws : ProbeSettles(raw)
    \/ \E i \in 1..Len(NsTxtQueries) : \E raw \in NsRaws \cup TxtRaws : NsTxtSettles(i, raw)
    \/ JoinNeedsSoa
    \/ JoinInterprets
    \/ \E i \in 1..Len(SoaQueries) : \E raw \in SoaRaws : SoaSettles(i, raw)
    \/ SoaJoinInterprets

Spec == InitCheck /\ [][NextCheck]_vars


(***************************************************************************)
(* checkDomainsStandard: cache, progress, per-domain isolation.            *)
(* A call runs synchronously to its first await: the cache test, the       *)
(* reset and the whole for loop (each domain's check runs to its own       *)
(* first await, which sends the wildcard probe) are one step.  A domain's  *)
(* check then settles in a step of its own; the step that settles the      *)
(* last one resumes the await of Promise.allSettled in the same microtask  *)
(* checkpoint.                                                             *)
(***************************************************************************)
CACHE_TTL_MS == 300000

MaxCalls == 2

\* What callers pass: base names, and TLD lists as selected (any order,
\* repetitions allowed).
BatchNames == { "example" }
TldLists ==
    { <<>>,
      << <<"com">> >>,
      << <<"io">>, <<"com">> >>,
      << <<"com">>, <<"com">> >> }

\* The order of Array.prototype.sort() without a comparator (UTF-16 code
\* units) on the model's TLDs: ".com" < ".io" < ".tk".
SortRank(tld) ==
    CASE tld = <<"com">> -> 1
      [] tld = <<"io">> -> 2
      [] OTHER -> 3

RECURSIVE InsertSorted(_, _)
InsertSorted(x, s) ==
    IF s = <<>> THEN <<x>>
    ELSE IF SortRank(x) <= SortRank(Head(s)) THEN <<x>> \o s
    ELSE <<Head(s)>> \o InsertSorted(x, Tail(s))

\* [...selectedTLDs].sort()
RECURSIVE SortTlds(_)
SortTlds(l) == IF l = <<>> THEN <<>> ELSE InsertSorted(Head(l), SortTlds(Tail(l)))

\* sortedTLDs.join(',')
RECURSIVE JoinTlds(_)
JoinTlds(l) ==
    IF l = <<>> THEN <<>>
    ELSE IF Len(l) = 1 THEN Head(l)
    ELSE Head(l) \o <<",">> \o JoinTlds(Tail(l))

\* `${domainName}:${sortedTLDs.join(',')}`
cacheKey(domainName, sortedTLDs) == <<domainName, ":">> \o JoinTlds(sortedTLDs)

\* `${domainName}${tld}`
fullDomain(domainName, tld) == <<domainName>> \o tld

\* cache.value[cacheKey]: the entry, None (undefined) when there is none.
CacheEntry(entries, key) ==
    IF \E e \in entries : e.key = key
    THEN CHOOSE e \in entries : e.key = key
    ELSE None

\* cachedEntry && Date.now() - cachedEntry.timestamp < 5 * 60 * 1000
\* A mutant: the comparison is inverted.
CacheHitInverted(cachedEntry, t) ==
    cachedEntry # None /\ t - cachedEntry.timestamp > CACHE_TTL_MS

\* A mutant: the age of the entry is not looked at.
CacheHitIgnoresAge(cachedEntry, t) == cachedEntry # None

CacheHit(cachedEntry, t) ==
    cachedEntry # None /\ t - cachedEntry.timestamp < CACHE_TTL_MS

\* Percentages are kept multiplied by PctScale, a common multiple of the list
\* lengths, so that every value the code computes is an integer here.
RECURSIVE Product(_)
Product(S) == IF S = {} THEN 1 ELSE LET x == CHOOSE y \in S : TRUE IN x * Product(S \ {x})

PctScale == Product({Len(l) : l \in TldLists} \ {0})

\* (processedDomains / totalDomains) * 95 + domainPercentage * (tenths / 10),
\* domainPercentage = 100 / totalDomains
Percentage(processedDomains, totalDomains, tenths) ==
    (95 * processedDomains * PctScale) \div totalDomains
    + (10 * tenths * PctScale) \div totalDomains

Percent100 == 100 * PctScale

\* The percentages one pass of the for loop writes: the start of the domain
\* and the four phases its check runs through before its first await.
LoopWrites(processedDomains, totalDomains) ==
    << Percentage(processedDomains, totalDomains, 0),
       Percentage(processedDomains, totalDomains, 1),
       Percentage(processedDomains, totalDomains, 3),
       Percentage(processedDomains, totalDomains, 6),
       Percentage(processedDomains, totalDomains, 8) >>

RECURSIVE Repeat(_, _)
Repeat(w, n) == IF n = 0 THEN <<>> ELSE w \o Repeat(w, n - 1)

\* groupedResults
\* A mutant of groupedResults: the bucket other leaves out the results with
\* status error.
groupedResultsWithoutError(rs) ==
    [available |-> SelectSeq(rs, LAMBDA r : r.status = "available"),
     notAvailable |-> SelectSeq(rs, LAMBDA r : r.status = "registered"),
     premium |-> SelectSeq(rs, LAMBDA r : r.status = "premium"),
     other |-> SelectSeq(rs, LAMBDA r : r.status = "indeterminate")]

groupedResults(rs) ==
    [available |-> SelectSeq(rs, LAMBDA r : r.status = "available"),
     notAvailable |-> SelectSeq(rs, LAMBDA r : r.status = "registered"),
     premium |-> SelectSeq(rs, LAMBDA r : r.status = "premium"),
     other |-> SelectSeq(rs, LAMBDA r : r.status = "indeterminate" \/ r.status = "error")]

\* A DomainResult, with the fields the batch reads or builds.
BatchResult(domain, status, category, message, reasons) ==
    [domain |-> domain, status |-> status, error |-> status = "error",
     errorCategory |-> category, errorMessage |-> message,
     link |-> generateLink(domain, status), confidenceReasons |-> reasons,
     isParkedByNs |-> FALSE, isParkedByTxt |-> FALSE]

\* The result the catch block of a domain's check builds from the exception.
CaughtResult(domain, error) ==
    LET h == handleError(error)
        status == IF h.suggestsDomainExists THEN "registered" ELSE "error"
    IN [domain |-> domain, status |-> status, error |-> status = "error",
        errorCategory |-> h.category, errorMessage |-> h.message,
        link |-> generateLink(domain, status),
        confidenceReasons |->
            << <<"Error during check:">> \o h.message,
               IF h.suggestsDomainExists
               THEN <<"Error type suggests domain might be registered.">>
               ELSE <<"Could not determine status.">> >>,
        isParkedByNs |-> FALSE, isParkedByTxt |-> FALSE]

\* The result settledResults.map builds for a rejected domain promise.
UnexpectedResult(domain, reason) ==
    [domain |-> domain, status |-> "error", error |-> TRUE,
     errorCategory |-> handleError(reason).category,
     errorMessage |-> <<"Unexpected error:">> \o handleError(reason).message,
     link |-> generateLink(domain, "error"),
     confidenceReasons |-> << <<"An unexpected error occurred during the check.">> >>,
     isParkedByNs |-> FALSE, isParkedByTxt |-> FALSE]

\* JSON.parse(JSON.stringify(finalResults)): strings, booleans and arrays of
\* strings come back as they were; a property that is undefined is dropped, and
\* reads as undefined ("" here) again.
JsonCopy(rs) ==
    [i \in 1..Len(rs) |->
        [domain |-> rs[i].domain, status |-> rs[i].status, error |-> rs[i].error,
         errorCategory |-> rs[i].errorCategory, errorMessage |-> rs[i].errorMessage,
         link |-> rs[i].link, confidenceReasons |-> rs[i].confidenceReasons,
         isParkedByNs |-> rs[i].isParkedByNs, isParkedByTxt |-> rs[i].isParkedByTxt]]

\* What a domain's check may do: checkDomainAvailability returns a result (the
\* model's samples: Available after the four NS/TXT queries, Error after the SOA
\* fallback too), or interpretCombinedResults throws on a malformed record (a
\* record without data: record.data.toLowerCase()).  `queries` are the DoH
\* queries sent after the wildcard probe, retries not counted.
DomainOutcomes ==
    { [kind |-> "returns", status |-> "available", category |-> "", message |-> <<>>,
       queries |-> 4],
      [kind |-> "returns", status |-> "error", category |-> "network",
       message |-> <<"Network connection issue">>, queries |-> 6],
      [kind |-> "throws", queries |-> 4,
       error |-> MkError("TypeError", FALSE, TRUE,
                   <<"Cannot", "read", "properties", "of", "undefined", "(reading",
                     "'toLowerCase')">>)] }

\* The fulfilled promise of a domain's check: its value, and whether the value
\* was built by the catch block.
DomainPromise(v, caught) == [status |-> "fulfilled", value |-> v, caught |-> caught]

\* The clock readings the model lets Date.now() take.
ClockTimes == { 0, CACHE_TTL_MS - 1, CACHE_TTL_MS }

checkVarsButCursor ==
    <<cPc, cTld, probeUrl, isWildcard, initialConfidenceReasons, nsTxt, soa,
      errorsIndicatingDomainExists, cResult>>

\* useDomainCheck(): the composable's state as constructed.
InitBatch ==
    /\ now = 0
    /\ cache = {}
    /\ results = <<>>
    /\ progress = [percentage |-> 0, stage |-> "preparing", domainsProcessed |-> 0,
                   totalDomains |-> 0, currentDomain |-> <<>>]
    /\ isChecking = FALSE
    /\ calls = <<>>
    /\ CheckOff
    /\ FetchOff
    /\ PureOff /\ WorkerOff

\* checkDomainsStandard(domainName, selectedTLDs), up to its return (cache
\* hit) or to await Promise.allSettled (cache miss).
checkDomainsStandard(domainName, selectedTLDs) ==
    /\ Len(calls) < MaxCalls
    /\ LET sortedTLDs == SortTlds(selectedTLDs)
           key == cacheKey(domainName, sortedTLDs)
           cachedEntry == CacheEntry(cache, key)
           totalDomains == Len(sortedTLDs)
       IN IF CacheHit(cachedEntry, now)
          THEN /\ results' = cachedEntry.results
               /\ calls' = Append(calls,
                     [domainName |-> domainName, selectedTLDs |-> selectedTLDs,
                      sortedTLDs |-> sortedTLDs, cacheKey |-> key,
                      cacheHit |-> TRUE, pc |-> "returned", processedDomains |-> 0,
                      promises |-> <<>>, writes |-> <<>>, requests |-> 0,
                      probeUrls |-> <<>>,
                      finalResults |-> <<>>,
                      returned |-> groupedResults(cachedEntry.results), cachedAt |-> -1])
               /\ UNCHANGED <<progress, isChecking, currentProviderIndex>>
          ELSE /\ results' = <<>>
               /\ progress' =
                    [percentage |-> IF totalDomains = 0 THEN 0
                                    ELSE Percentage(0, totalDomains, 8),
                     stage |-> "finalizing",
                     domainsProcessed |-> 0,
                     totalDomains |-> totalDomains,
                     currentDomain |-> IF totalDomains = 0 THEN <<>>
                                       ELSE fullDomain(domainName, sortedTLDs[totalDomains])]
               /\ isChecking' = TRUE
               /\ currentProviderIndex' = CursorAfter(currentProviderIndex, totalDomains)
               /\ calls' = Append(calls,
                     [domainName |-> domainName, selectedTLDs |-> selectedTLDs,
                      sortedTLDs |-> sortedTLDs, cacheKey |-> key,
                      cacheHit |-> FALSE, pc |-> "waiting", processedDomains |-> 0,
                      promises |-> [i \in 1..totalDomains |-> None],
                      writes |-> <<0>>
                                 \o (IF totalDomains = 0 THEN <<>>
                                     ELSE Repeat(LoopWrites(0, totalDomains), totalDomains))
                                 \o <<IF totalDomains = 0 THEN 0
                                      ELSE Percentage(0, totalDomains, 8)>>,
                      requests |-> totalDomains,
                      probeUrls |-> [i \in 1..totalDomains |->
                          NextProviderUrl(CursorAfter(currentProviderIndex, i - 1))],
                      finalResults |-> <<>>,
                      returned |-> None, cachedAt |-> -1])
    /\ UNCHANGED <<now, cache, fetchVars, pureVars, workerVars, checkVarsButCursor>>

\* The code after await Promise.allSettled(domainCheckPromises), for call c of
\* the calls cs: finalResults, results, the final progress, isChecking, the cache
\* entry, the return.
Complete(c, cs) ==
    LET call == cs[c]
        totalDomains == Len(call.sortedTLDs)
        finalResults ==
            [i \in 1..totalDomains |->
                IF call.promises[i].status = "fulfilled"
                THEN call.promises[i].value
                ELSE UnexpectedResult(fullDomain(call.domainName, call.sortedTLDs[i]),
                                      call.promises[i].reason)]
    IN /\ results' = finalResults
       /\ progress' = [percentage |-> Percent100, stage |-> "complete",
                       domainsProcessed |-> totalDomains, totalDomains |-> totalDomains,
                       currentDomain |-> <<>>]
       /\ isChecking' = FALSE
       /\ cache' = {e \in cache : e.key # call.cacheKey}
                   \cup {[key |-> call.cacheKey, results |-> JsonCopy(finalResults),
                          timestamp |-> now]}
       /\ calls' = [cs EXCEPT ![c] =
                      [call EXCEPT !.pc = "returned",
                                   !.writes = Append(call.writes, Percent100),
                                   !.finalResults = finalResults,
                                   !.returned = groupedResults(finalResults),
                                   !.cachedAt = now]]

\* A mutant: the join resumes only when no check has failed.
DomainChecksSettledWithoutFailure(promises) == \A j \in 1..Len(promises) : promises[j] # None /\ ~promises[j].caught

\* Promise.allSettled(domainCheckPromises) is resolved: every promise has settled.
DomainChecksSettled(promises) == \A j \in 1..Len(promises) : promises[j] # None

\* A batch of no domains is waiting: its await of Promise.allSettled([]) resumes
\* in a microtask, before any timer or network event is handled.
EmptyBatchPending ==
    \E c \in 1..Len(calls) : calls[c].pc = "waiting" /\ Len(calls[c].promises) = 0

\* The check of domain i of call c settles: the code after (or the catch block
\* around) await checkDomainAvailability(fullDomain); when it is the last one,
\* the batch completes.
DomainSettles(c, i, o) ==
    /\ ~EmptyBatchPending
    /\ c \in 1..Len(calls)
    /\ calls[c].pc = "waiting"
    /\ i \in 1..Len(calls[c].promises)
    /\ calls[c].promises[i] = None
    /\ \E value \in { IF o.kind = "returns"
                      THEN BatchResult(fullDomain(calls[c].domainName, calls[c].sortedTLDs[i]),
                                       o.status, o.category, o.message, <<>>)
                      ELSE CaughtResult(fullDomain(calls[c].domainName, calls[c].sortedTLDs[i]),
                                        o.error) } :
       LET call == calls[c]
           totalDomains == Len(call.sortedTLDs)
           domain == fullDomain(call.domainName, call.sortedTLDs[i])
           processedDomains == call.processedDomains + 1
           percentage == Percentage(processedDomains, totalDomains, 0)
           cs == [calls EXCEPT ![c] =
                    [call EXCEPT !.processedDomains = processedDomains,
                                 !.promises[i] = DomainPromise(value, o.kind = "throws"),
                                 !.writes = Append(call.writes, percentage),
                                 !.requests = call.requests + o.queries]]
       IN IF DomainChecksSettled(cs[c].promises)
          THEN Complete(c, cs)
          ELSE /\ calls' = cs
               /\ progress' =
                    IF o.kind = "returns"
                    THEN [progress EXCEPT !.domainsProcessed = processedDomains,
                                          !.percentage = percentage,
                                          !.currentDomain = domain,
                                          !.stage = "finalizing"]
                    ELSE [progress EXCEPT !.domainsProcessed = processedDomains,
                                          !.percentage = percentage]
               /\ UNCHANGED <<results, isChecking, cache>>
    /\ UNCHANGED <<now, currentProviderIndex, fetchVars, pureVars, workerVars, checkVarsButCursor>>

\* A batch of no domains: Promise.allSettled([]) is resolved at once, and the
\* batch completes in the next microtask.
EmptyBatchCompletes(c) ==
    /\ c \in 1..Len(calls)
    /\ calls[c].pc = "waiting"
    /\ Len(calls[c].promises) = 0
    /\ Complete(c, calls)
    /\ UNCHANGED <<now, currentProviderIndex, fetchVars, pureVars, workerVars, checkVarsButCursor>>

\* Time passes.
Tick(t) ==
    /\ ~EmptyBatchPending
    /\ t > now
    /\ now' = t
    /\ UNCHANGED <<cache, results, progress, isChecking, calls, currentProviderIndex,
                   fetchVars, pureVars, workerVars, checkVarsButCursor>>

NextBatch ==
    \/ \E domainName \in BatchNames : \E selectedTLDs \in TldLists :
           checkDomainsStandard(domainName, selectedTLDs)
    \/ \E c \in 1..Len(calls) : \E i \in 1..Len(calls[c].promises) :
           \E o \in DomainOutcomes : DomainSettles(c, i, o)
    \/ \E c \in 1..Len(calls) : EmptyBatchCompletes(c)
    \/ \E t \in ClockTimes : Tick(t)

SpecBatch == InitBatch /\ [][NextBatch]_vars

\* Every DoH call settles (a response, an error, or the abort of the 5000 ms
\* timer) and a check makes a bounded number of calls, so every started check
\* settles; a continuation queued as a microtask is run.
SettlesFairness ==
    /\ WF_vars(\E c \in 1..Len(calls) : \E i \in 1..Len(calls[c].promises) :
                  \E o \in DomainOutcomes : DomainSettles(c, i, o))
    /\ WF_vars(\E c \in 1..Len(calls) : EmptyBatchCompletes(c))

SpecBatchFair == InitBatch /\ [][NextBatch]_vars /\ SettlesFairness


(***************************************************************************)
(* Properties of one domain's check (Spec).                                *)
(***************************************************************************)
RespondedNxDomain(r) == r.status = "fulfilled" /\ r.value.Status = DNS_STATUS_NXDOMAIN

CarriesNsOrSoa(r) ==
    /\ r.status = "fulfilled"
    /\ r.value.Status = DNS_STATUS_NOERROR
    /\ \E rec \in {r.value.Answer[i] : i \in 1..Len(r.value.Answer)}
             \cup {r.value.Authority[i] : i \in 1..Len(r.value.Authority)} :
          rec.type \in {DNS_RECORD_TYPE_NS, DNS_RECORD_TYPE_SOA}

CarriesActiveUsageTxt(r) ==
    /\ r.status = "fulfilled"
    /\ r.queryType = DNS_RECORD_TYPE_TXT
    /\ r.value.Status = DNS_STATUS_NOERROR
    /\ \E i \in 1..Len(r.value.Answer) :
          /\ r.value.Answer[i].type = DNS_RECORD_TYPE_TXT
          /\ \E k \in 1..PatternCount("ACTIVE_USAGE") :
                PatternTest("ACTIVE_USAGE", k, TextOf(r.value.Answer[i].data))

TimedOut(r) ==
    /\ r.status = "rejected"
    /\ \E k \in 1..(Len(r.reason.message) - 1) :
          r.reason.message[k] = "timed" /\ r.reason.message[k + 1] = "out"

NsInconclusive(r) ==
    r.queryType = DNS_RECORD_TYPE_NS =>
        \/ r.status = "rejected"
        \/ r.value.Status \notin {DNS_STATUS_NOERROR, DNS_STATUS_NXDOMAIN}

HasReason(reason) ==
    \E j \in 1..Len(cResult.confidenceReasons) : cResult.confidenceReasons[j] = reason

HasLowConfidenceNote ==
    \E j \in 1..Len(cResult.confidenceReasons) :
        cResult.confidenceReasons[j][1] = "Low Confidence:"

\* C1: when the NS and the TXT queries to both primary providers all answer
\* NXDOMAIN and the wildcard probe detected no wildcard, the domain's status is
\* Available.
C1_AllNxDomainNoWildcardIsAvailable ==
    (/\ cPc = "done"
     /\ \A i \in 1..Len(nsTxt) : RespondedNxDomain(nsTxt[i])
     /\ ~isWildcard)
    => cResult.status = "available"

C1_Witness ==
    /\ cPc = "done"
    /\ Len(nsTxt) = Len(NsTxtQueries)
    /\ \A i \in 1..Len(nsTxt) : RespondedNxDomain(nsTxt[i])
    /\ ~isWildcard
    /\ soa = <<>>
    /\ cResult.status = "available"

\* C2: when any response of a primary provider (NS, TXT or SOA query) has status
\* NOERROR and carries an NS or SOA record in its Answer or Authority section,
\* the status is Registered, whatever the other responses and the probe say.
C2_NsOrSoaRecordIsRegistered ==
    (/\ cPc = "done"
     /\ \E i \in 1..Len(nsTxt \o soa) : CarriesNsOrSoa((nsTxt \o soa)[i]))
    => cResult.status = "registered"

C2_Witness ==
    /\ cPc = "done"
    /\ isWildcard
    /\ \E i \in 1..Len(nsTxt) :
          /\ CarriesNsOrSoa(nsTxt[i])
          /\ nsTxt[i].value.Answer = <<>>
    /\ \A i \in 1..Len(nsTxt) :
          nsTxt[i].queryType = DNS_RECORD_TYPE_NS => RespondedNxDomain(nsTxt[i])
    /\ cResult.status = "registered"

\* C3: a TXT response holding a record that matches an active-usage marker gives
\* status Registered, by the first rule of the chain: the evidence names the
\* active usage indicators, whatever the other responses say.
C3_ActiveUsageTxtIsRegistered ==
    (/\ cPc = "done"
     /\ \E i \in 1..Len(nsTxt) : CarriesActiveUsageTxt(nsTxt[i]))
    => /\ cResult.status = "registered"
       /\ HasReason(<<"High Confidence:", "Found active usage indicators (verification TXT records), domain is in use.">>)

C3_Witness ==
    /\ cPc = "done"
    /\ \E i \in 1..Len(nsTxt) : CarriesActiveUsageTxt(nsTxt[i])
    /\ \E i \in 1..Len(nsTxt) : RespondedNxDomain(nsTxt[i])
    /\ \E i \in 1..Len(nsTxt) : nsTxt[i].status = "rejected"
    /\ ~(\E i \in 1..Len(nsTxt \o soa) : CarriesNsOrSoa((nsTxt \o soa)[i]))
    /\ cResult.status = "registered"

\* C4, as the specification states it: when the NS and SOA queries to both
\* primary providers fail with a timeout, and neither a TXT query nor the
\* wildcard probe returns anything, the status is Error and the error category
\* is Timeout.
C4_AllTimeoutsIsTimeoutError ==
    (/\ cPc = "done"
     /\ soa # <<>>
     /\ \A i \in 1..Len(nsTxt) : TimedOut(nsTxt[i])
     /\ \A i \in 1..Len(soa) : TimedOut(soa[i])
     /\ ~isWildcard)
    => /\ cResult.status = "error"
       /\ cResult.errorCategory = "timeout"

\* C5, as the specification states it: when a provider reports NXDOMAIN, the
\* probe detected a wildcard and a returned nameserver is in the parking set,
\* the status is Registered and the evidence holds a low-confidence note.
C5_WildcardParkedNsIsLowConfidence ==
    (/\ cPc = "done"
     /\ isWildcard
     /\ \E i \in 1..Len(nsTxt) : RespondedNxDomain(nsTxt[i])
     /\ \E i \in 1..Len(nsTxt) :
           /\ nsTxt[i].status = "fulfilled"
           /\ \E k \in 1..Len(nsTxt[i].value.Answer) :
                 /\ nsTxt[i].value.Answer[k].type = DNS_RECORD_TYPE_NS
                 /\ IsParkingNs(nsTxt[i].value.Answer[k].data))
    => /\ cResult.status = "registered"
       /\ HasLowConfidenceNote

\* C10: SOA queries are issued exactly when every NS outcome is a failure or a
\* status other than NOERROR and NXDOMAIN; they are issued only after all the
\* NS/TXT queries have settled, one to each primary provider.
C10_SoaFallbackExactlyWhenNsInconclusive ==
    /\ soa # <<>> =>
          /\ \A i \in 1..Len(nsTxt) : nsTxt[i] # None
          /\ \A i \in 1..Len(nsTxt) : NsInconclusive(nsTxt[i])
          /\ Len(soa) = Len(PRIMARY_PROVIDER_URLS)
          /\ \A i \in 1..Len(soa) :
                soa[i] # None =>
                   /\ soa[i].provider = ProviderName(PRIMARY_PROVIDER_URLS[i])
                   /\ soa[i].queryType = DNS_RECORD_TYPE_SOA
    /\ cPc = "done" =>
          (soa # <<>> <=> \A i \in 1..Len(nsTxt) : NsInconclusive(nsTxt[i]))

C10_Witness ==
    /\ cPc = "done"
    /\ soa # <<>>
    /\ \A i \in 1..Len(soa) : soa[i] # None
    /\ \E i \in 1..Len(nsTxt) : nsTxt[i].status = "rejected"
    /\ \E i \in 1..Len(nsTxt) :
          nsTxt[i].status = "fulfilled" /\ nsTxt[i].value.Status = DNS_STATUS_SERVFAIL

(***************************************************************************)
(* Properties of fetchDnsJson (SpecFetch).                                 *)
(***************************************************************************)
TimeoutOrTransient5xx(raw) ==
    \/ raw.kind = "abort"
    \/ raw.kind = "http" /\ raw.code \in {"500", "502", "503", "504"}

\* C9, as the specification states it: fetchDnsJson makes at most two attempts,
\* and makes the second one exactly when the first attempt failed with a
\* timeout or with HTTP 500, 502, 503 or 504.
C9_RetryExactlyOnTimeoutOr5xx ==
    /\ Len(fLog) <= 2
    /\ (Len(fLog) = 1 /\ fPc # "returned") =>
          (fPc \in {"backoff", "attempt"} <=> TimeoutOrTransient5xx(fLog[1]))
    /\ Len(fLog) = 2 => TimeoutOrTransient5xx(fLog[1])

(***************************************************************************)
(* Properties of a batch (SpecBatch).                                      *)
(***************************************************************************)
\* C6: a batch (the same name and TLD list) issued again after its first run
\* completed, less than five minutes after that run cached its results, returns
\* the cached results in the same step and sends no DoH request.
C6_SecondBatchWithinTtlServedFromCache ==
    [][ \A c \in 1..Len(calls) :
           (/\ Len(calls') = Len(calls) + 1
            /\ calls[c].pc = "returned"
            /\ ~calls[c].cacheHit
            /\ calls'[Len(calls')].domainName = calls[c].domainName
            /\ calls'[Len(calls')].selectedTLDs = calls[c].selectedTLDs
            /\ now - calls[c].cachedAt < CACHE_TTL_MS)
           => /\ calls'[Len(calls')].pc = "returned"
              /\ calls'[Len(calls')].requests = 0
              /\ \A d \in 1..Len(calls) : calls'[d].requests = calls[d].requests
              /\ \E e \in cache :
                    /\ e.key = calls[c].cacheKey
                    /\ results' = e.results
                    /\ calls'[Len(calls')].returned = groupedResults(e.results)
              /\ progress' = progress
              /\ isChecking' = isChecking ]_vars

C6_Witness ==
    \E c \in 1..Len(calls) :
        /\ c > 1
        /\ calls[c].cacheHit
        /\ calls[c].pc = "returned"
        /\ calls[c].requests = 0
        /\ calls[c].selectedTLDs = calls[1].selectedTLDs
        /\ Len(calls[c].selectedTLDs) = 2
        /\ calls[1].pc = "returned" /\ ~calls[1].cacheHit
        /\ now = CACHE_TTL_MS - 1
        /\ calls[1].cachedAt = 0
        /\ results = calls[1].finalResults

\* C7, as the specification states it: within one batch every value written to
\* progress.percentage is at least the value written before it, and the value
\* at completion is exactly 100.
C7_ProgressNeverDecreasesAndEndsAt100 ==
    \A c \in 1..Len(calls) :
        /\ \A k \in 1..(Len(calls[c].writes) - 1) :
              calls[c].writes[k] <= calls[c].writes[k + 1]
        /\ (calls[c].pc = "returned" /\ ~calls[c].cacheHit) =>
              calls[c].writes[Len(calls[c].writes)] = Percent100

\* C8: an exception thrown inside one domain's check becomes a result with
\* status Error for that domain; the batch still returns one result for every
\* domain, each other domain's being the result its own check returned, and the
\* batch's promise is fulfilled.
C8_ExceptionInOneDomainIsIsolated ==
    \A c \in 1..Len(calls) :
        (calls[c].pc = "returned" /\ ~calls[c].cacheHit) =>
            /\ Len(calls[c].finalResults) = Len(calls[c].sortedTLDs)
            /\ calls[c].returned = groupedResults(calls[c].finalResults)
            /\ \A i \in 1..Len(calls[c].finalResults) :
                  /\ calls[c].finalResults[i].domain
                        = fullDomain(calls[c].domainName, calls[c].sortedTLDs[i])
                  /\ calls[c].promises[i].status = "fulfilled"
                  /\ calls[c].finalResults[i] = calls[c].promises[i].value
                  /\ calls[c].promises[i].caught =>
                        /\ calls[c].finalResults[i].status = "error"
                        /\ calls[c].finalResults[i].error

C8_Witness ==
    \E c \in 1..Len(calls) :
        /\ calls[c].pc = "returned"
        /\ Len(calls[c].finalResults) = 2
        /\ calls[c].promises[1].caught
        /\ ~calls[c].promises[2].caught
        /\ calls[c].finalResults[1].status = "error"
        /\ calls[c].finalResults[2].status = "available"

(***************************************************************************)
(* Further properties of one domain's check (Spec).                        *)
(***************************************************************************)
\* C11: the four NS/TXT queries (NS and TXT to each primary provider) are
\* issued together, before any of them settles; the SOA fallback and the
\* classification start only when all four have settled, and a failed query
\* is collected like any other: the classifier receives exactly four NS/TXT
\* outcomes, one per provider and record type.
C11_FourNsTxtOutcomesJoined ==
    /\ nsTxt # <<>> => Len(nsTxt) = 2 * Len(PRIMARY_PROVIDER_URLS)
    /\ cPc \in {"soa", "done"} =>
          /\ Len(nsTxt) = 2 * Len(PRIMARY_PROVIDER_URLS)
          /\ \A i \in 1..Len(nsTxt) :
                /\ nsTxt[i] # None
                /\ nsTxt[i].provider = ProviderName(NsTxtQueries[i].url)
                /\ nsTxt[i].queryType = NsTxtQueries[i].queryType
    /\ cPc = "done" => cResult # None

C11_Witness ==
    /\ cPc = "done"
    /\ nsTxt[1].status = "rejected"
    /\ nsTxt[2].status = "fulfilled"
    /\ nsTxt[3].status = "fulfilled"
    /\ nsTxt[4].status = "rejected"
    /\ cResult # None

ProbeFailureRecorded(reasons) ==
    \E j \in 1..Len(reasons) : reasons[j][1] = "Wildcard detection failed:"

\* C12: whatever combination of the wildcard probe, the NS/TXT queries and the
\* SOA queries fails at the network level, checkDomainAvailability ends by
\* returning a DomainResult for its domain, whose evidence begins with the
\* evidence collected before the classification; a failed wildcard probe is in
\* that evidence, and the check has gone on with wildcard = false.
C12_NetworkFailuresNeverThrow ==
    /\ cPc = "done" =>
          /\ cResult # None
          /\ cResult.domain = Domain(cTld)
          /\ cResult.status \in {"available", "registered", "premium", "indeterminate", "error"}
          /\ Len(cResult.confidenceReasons) >= Len(initialConfidenceReasons)
          /\ \A j \in 1..Len(initialConfidenceReasons) :
                cResult.confidenceReasons[j] = initialConfidenceReasons[j]
    /\ ProbeFailureRecorded(initialConfidenceReasons) =>
          /\ ~isWildcard
          /\ cPc \in {"nstxt", "soa", "done"}

C12_Witness ==
    /\ cPc = "done"
    /\ ProbeFailureRecorded(cResult.confidenceReasons)
    /\ ~isWildcard
    /\ \A i \in 1..Len(nsTxt) : nsTxt[i].status = "rejected"
    /\ soa # <<>>
    /\ \A i \in 1..Len(soa) : soa[i].status = "rejected"
    /\ cResult.status = "error"

\* The failures among the outcomes that are marked as suggesting the domain
\* exists.
ErrorsSuggestingExistence(settled) ==
    Cardinality({ i \in 1..Len(settled) :
                    settled[i].status = "rejected" /\ settled[i].suggestsDomainExists })

C25_PrimarySubsetIsFirstTwoProviders ==
    /\ \A i \in 1..Len(nsTxt) :
          nsTxt[i] # None => nsTxt[i].provider = PROVIDERS[(i + 1) \div 2].name
    /\ \A i \in 1..Len(soa) :
          soa[i] # None => soa[i].provider = PROVIDERS[i].name

\* C26: when the status is available, every outcome of a provider is an
\* NXDOMAIN response or a failure: none is a NOERROR response.
C26_AvailableHasNoNoErrorResponse ==
    (cPc = "done" /\ cResult.status = "available") =>
        \A i \in 1..Len(nsTxt \o soa) :
            \/ (nsTxt \o soa)[i].status = "rejected"
            \/ (nsTxt \o soa)[i].value.Status # DNS_STATUS_NOERROR

\* The providers whose last analysed TXT response matches a premium pattern
\* are at least half of the providers that gave an outcome, and at least one.
PremiumTxtConsensus(settled) ==
    LET providers == {settled[i].provider : i \in 1..Len(settled)}
        premium == { p \in providers :
                       \E i \in 1..Len(settled) :
                          /\ settled[i].provider = p
                          /\ IsTxtAnalysed(settled[i])
                          /\ analyzeTxtRecordsForParking(settled[i].value).isPremium
                          /\ \A k \in (i+1)..Len(settled) :
                                ~(settled[k].provider = p /\ IsTxtAnalysed(settled[k])) }
    IN Cardinality(premium) > 0 /\ 2 * Cardinality(premium) >= Cardinality(providers)

RespondedServFail(r) == r.status = "fulfilled" /\ r.value.Status = DNS_STATUS_SERVFAIL

\* C27: when the status is available, the probe detected no wildcard, some
\* response is NXDOMAIN, no response is SERVFAIL, no response is NOERROR with
\* NS/SOA records, no TXT response carries an active-usage indicator, and there
\* is no premium-TXT consensus.
C27_AvailableConditions ==
    (cPc = "done" /\ cResult.status = "available") =>
        LET settled == nsTxt \o soa IN
        /\ ~isWildcard
        /\ \E i \in 1..Len(settled) : RespondedNxDomain(settled[i])
        /\ \A i \in 1..Len(settled) :
              /\ ~RespondedServFail(settled[i])
              /\ ~CarriesNsOrSoa(settled[i])
              /\ ~CarriesActiveUsageTxt(settled[i])
        /\ ~PremiumTxtConsensus(settled)

\* An available verdict reached with an NXDOMAIN response beside a failed query.
C27_Witness ==
    /\ cPc = "done"
    /\ cResult.status = "available"
    /\ \E i \in 1..Len(nsTxt \o soa) : (nsTxt \o soa)[i].status = "rejected"
    /\ \E i \in 1..Len(nsTxt \o soa) : RespondedNxDomain((nsTxt \o soa)[i])

\* parkedNsCount or the parked TXT consensus reaches the threshold, or, a
\* wildcard being detected, either is positive.
StrongParkingSignal(settled, isWild) ==
    LET providers == {settled[i].provider : i \in 1..Len(settled)}
        parkedNs == Cardinality({i \in 1..Len(settled) : ReportsParkedNs(settled[i])})
        parkedTxt == Cardinality({ p \in providers :
                       \E i \in 1..Len(settled) :
                          /\ settled[i].provider = p
                          /\ IsTxtAnalysed(settled[i])
                          /\ analyzeTxtRecordsForParking(settled[i].value).isParked
                          /\ \A k \in (i+1)..Len(settled) :
                                ~(settled[k].provider = p /\ IsTxtAnalysed(settled[k])) })
    IN \/ 2 * parkedNs >= Cardinality(providers) /\ parkedNs > 0
       \/ 2 * parkedTxt >= Cardinality(providers) /\ parkedTxt > 0
       \/ isWild /\ (parkedNs > 0 \/ parkedTxt > 0)

\* C28: when some response is NXDOMAIN, none is NOERROR with NS/SOA records or
\* SERVFAIL, no TXT response carries an active-usage indicator and the probe
\* detected a wildcard, the status is registered if there is a strong parking
\* signal or a premium-TXT consensus, and indeterminate otherwise.
C28_WildcardWithNxDomain ==
    LET settled == nsTxt \o soa IN
    (/\ cPc = "done"
     /\ isWildcard
     /\ \E i \in 1..Len(settled) : RespondedNxDomain(settled[i])
     /\ \A i \in 1..Len(settled) :
           /\ ~RespondedServFail(settled[i])
           /\ ~CarriesNsOrSoa(settled[i])
           /\ ~CarriesActiveUsageTxt(settled[i]))
    => cResult.status =
          IF StrongParkingSignal(settled, isWildcard) \/ PremiumTxtConsensus(settled)
          THEN "registered" ELSE "indeterminate"

\* A wildcard and an NXDOMAIN response with a parked TXT response: registered.
C28_Witness ==
    /\ cPc = "done"
    /\ isWildcard
    /\ cResult.status = "registered"
    /\ \E i \in 1..Len(nsTxt \o soa) : RespondedNxDomain((nsTxt \o soa)[i])
    /\ \A i \in 1..Len(nsTxt \o soa) :
          /\ ~RespondedServFail((nsTxt \o soa)[i])
          /\ ~CarriesNsOrSoa((nsTxt \o soa)[i])
          /\ ~CarriesActiveUsageTxt((nsTxt \o soa)[i])

\* C29: the status is premium exactly when no TXT response carries an
\* active-usage indicator, no response is NOERROR with NS/SOA records, no
\* response is NXDOMAIN, and the premium-TXT consensus holds.
C29_PremiumExactlyWhen ==
    LET settled == nsTxt \o soa IN
    cPc = "done" =>
        (cResult.status = "premium"
         <=> /\ \A i \in 1..Len(settled) :
                   /\ ~CarriesActiveUsageTxt(settled[i])
                   /\ ~CarriesNsOrSoa(settled[i])
                   /\ ~RespondedNxDomain(settled[i])
             /\ PremiumTxtConsensus(settled))

\* A premium verdict.
C29_Witness == cPc = "done" /\ cResult.status = "premium"

\* Rules 1, 2 and 4 do not apply: no TXT response carries an active-usage
\* indicator, no response is NOERROR with NS/SOA records, and the status is
\* not premium.
RulesOneTwoFourDoNotApply ==
    /\ cPc = "done"
    /\ Len(nsTxt \o soa) > 0
    /\ \A i \in 1..Len(nsTxt \o soa) :
          /\ ~CarriesActiveUsageTxt((nsTxt \o soa)[i])
          /\ ~CarriesNsOrSoa((nsTxt \o soa)[i])
    /\ cResult.status # "premium"

\* The first half of C30, which holds: when some response is SERVFAIL and rules
\* 1, 2 and 4 do not apply, the status is registered.
ServFailIsRegistered ==
    (/\ RulesOneTwoFourDoNotApply
     /\ \E i \in 1..Len(nsTxt \o soa) : RespondedServFail((nsTxt \o soa)[i]))
    => cResult.status = "registered"

\* C30: when rules 1, 2 and 4 do not apply, and some response is SERVFAIL or the
\* NS/SOA failures whose error suggests that the domain exists number at least
\* consensusThreshold, the status is registered.
C30_ServFailOrExistenceErrorsIsRegistered ==
    (/\ RulesOneTwoFourDoNotApply
     /\ \/ \E i \in 1..Len(nsTxt \o soa) : RespondedServFail((nsTxt \o soa)[i])
        \/ errorsIndicatingDomainExists
             >= ConsensusThreshold(Cardinality({(nsTxt \o soa)[i].provider :
                                                 i \in 1..Len(nsTxt \o soa)})))
    => cResult.status = "registered"

\* The providers that report a parking nameserver, a parked TXT record, a
\* premium TXT record (each provider by its last analysed TXT response).
ParkedNsReporters(settled) ==
    { settled[i].provider : i \in {k \in 1..Len(settled) : ReportsParkedNs(settled[k])} }

ParkedTxtReporters(settled) ==
    { settled[i].provider : i \in {k \in TxtAnalysisIndexes(settled) :
                                      analyzeTxtRecordsForParking(settled[k].value).isParked} }

PremiumTxtReporters(settled) ==
    { settled[i].provider : i \in {k \in TxtAnalysisIndexes(settled) :
                                      analyzeTxtRecordsForParking(settled[k].value).isPremium} }

RespondingProviders(settled) == { settled[i].provider : i \in 1..Len(settled) }

\* C31: the parking and premium signals of a domain check are aggregated by
\* consensus and not by a simple OR: a signal that one provider alone reports,
\* out of several that responded, sets neither isParkedByNs nor isParkedByTxt
\* nor the premium-TXT consensus.
C31_SignalsAreNotSimpleOr ==
    LET settled == nsTxt \o soa IN
    (cPc = "done" /\ Cardinality(RespondingProviders(settled)) > 1) =>
        /\ Cardinality(ParkedNsReporters(settled)) = 1 => ~cResult.isParkedByNs
        /\ Cardinality(ParkedTxtReporters(settled)) = 1 => ~cResult.isParkedByTxt
        /\ Cardinality(PremiumTxtReporters(settled)) = 1
              => ~Tally(settled, isWildcard).hasPremiumTxtSignalConsensus

\* What the code does instead: a domain check queries the two primary providers
\* only, consensusThreshold is 1, and each aggregate is the OR of the
\* providers' signals.
AggregatesAreDisjunctions ==
    LET settled == nsTxt \o soa IN
    (cPc = "done" /\ Len(settled) > 0) =>
        /\ Tally(settled, isWildcard).consensusThreshold = 1
        /\ cResult.isParkedByNs <=> ParkedNsReporters(settled) # {}
        /\ cResult.isParkedByTxt <=> ParkedTxtReporters(settled) # {}
        /\ Tally(settled, isWildcard).hasPremiumTxtSignalConsensus
              <=> PremiumTxtReporters(settled) # {}

\* The result of the same provider outcomes and the same negative probe for
\* the domain of another TLD.
ResultOnTld(tld) ==
    interpretCombinedResults(Domain(tld), nsTxt \o soa, isWildcard,
                             TldOf(Domain(tld)) \in KNOWN_WILDCARD_TLDS,
                             errorsIndicatingDomainExists, <<>>)

\* C32: with the same provider outcomes and a negative probe, the domain of a
\* wildcard-prone TLD and the domain of any other TLD get the same status, the
\* link of that status, and the same wildcardDetected value.
C32_WildcardProneTldIsOnlyEvidence ==
    (cPc = "done" /\ ~isWildcard /\ Len(nsTxt \o soa) > 0) =>
        \A tld \in CheckTlds :
            /\ ResultOnTld(tld).status = cResult.status
            /\ ResultOnTld(tld).link = generateLink(Domain(tld), cResult.status)
            /\ ResultOnTld(tld).wildcardDetected = cResult.wildcardDetected

\* The part of C32 that holds: the status, and so the link, do not depend on
\* the wildcard-prone-TLD flag.
StatusIgnoresWildcardProneTld ==
    (cPc = "done" /\ Len(nsTxt \o soa) > 0) =>
        \A tld \in CheckTlds :
            /\ ResultOnTld(tld).status = cResult.status
            /\ ResultOnTld(tld).link = generateLink(Domain(tld), cResult.status)

\* error is true exactly when the status is error; errorCategory and
\* errorMessage are set (not undefined) only when the status is error; a result
\* of status error has an errorCategory.
ErrorFieldsAgree(r) ==
    /\ r.error <=> r.status = "error"
    /\ r.status # "error" => r.errorCategory = "" /\ r.errorMessage = <<>>
    /\ r.status = "error" => r.errorCategory # ""

DefaultBranchReason ==
    <<"Indeterminate:", "Could not determine a confident status based on mixed or inconclusive results.">>

RespondedNoErrorWithoutNsOrSoa(r) ==
    /\ r.status = "fulfilled"
    /\ r.value.Status = DNS_STATUS_NOERROR
    /\ ~CarriesNsOrSoa(r)

\* C35: a domain's check returns indeterminate only when some response is
\* NXDOMAIN or some response is NOERROR without NS/SOA records, and the final
\* default branch of the decision chain is never taken.
C35_IndeterminateHasNxDomainOrBareNoError ==
    LET settled == nsTxt \o soa IN
    cPc = "done" =>
        /\ cResult.status = "indeterminate" =>
               \E i \in 1..Len(settled) :
                  RespondedNxDomain(settled[i]) \/ RespondedNoErrorWithoutNsOrSoa(settled[i])
        /\ \A k \in 1..Len(cResult.confidenceReasons) :
               cResult.confidenceReasons[k] # DefaultBranchReason

\* Indeterminate by a NOERROR response without NS/SOA records, no response
\* being NXDOMAIN.
C35_Witness ==
    /\ cPc = "done"
    /\ cResult.status = "indeterminate"
    /\ \A i \in 1..Len(nsTxt \o soa) : ~RespondedNxDomain((nsTxt \o soa)[i])

(***************************************************************************)
(* Further properties of a batch (SpecBatch).                              *)
(***************************************************************************)
\* The companion of C34 for the results a batch builds itself, in the catch
\* block around a domain's check: they too keep the error fields in step with
\* the status (the exceptions a check can throw never suggest that the domain
\* exists, so the catch block always ends in error).
BatchErrorFieldsFollowStatus ==
    \A i \in 1..Len(results) : ErrorFieldsAgree(results[i])

\* C36: isChecking is true in every state in which a batch started through
\* checkDomains is still in flight.
C36_CheckingWhileInFlight ==
    (\E c \in 1..Len(calls) : calls[c].pc = "waiting") => isChecking

\* C13, as the specification states it: when a newer request supersedes a batch
\* that is still in flight, the older batch's results are discarded: once every
\* request has settled, the exposed results are those the newest request
\* returned, and every cache entry holds the results of one single request of
\* its key.
C13_NewestRequestWins ==
    (/\ Len(calls) >= 2
     /\ \A c \in 1..Len(calls) : calls[c].pc = "returned")
    => /\ groupedResults(results) = calls[Len(calls)].returned
       /\ \A e \in cache :
             \E c \in 1..Len(calls) :
                 /\ ~calls[c].cacheHit
                 /\ calls[c].cacheKey = e.key
                 /\ e.results = JsonCopy(calls[c].finalResults)

\* C14, as the specification states it: a request with an empty base domain or
\* an empty TLD list fails with an error the caller sees (its promise is
\* rejected); it sends no DoH query and leaves no cache entry.
C14_EmptyInputIsHardError ==
    \A c \in 1..Len(calls) :
        (calls[c].domainName = "" \/ calls[c].selectedTLDs = <<>>) =>
            /\ calls[c].pc = "rejected"
            /\ calls[c].requests = 0
            /\ \A e \in cache : e.key # calls[c].cacheKey

TldSet(l) == {l[i] : i \in 1..Len(l)}

\* C15, as the specification states it: the TLD list is sorted and deduplicated
\* before use: two requests for the same name whose lists hold the same set of
\* TLDs have the same cache key, and a completed batch holds exactly one result
\* for each distinct TLD of its list.
C15_TldListSortedAndDeduplicated ==
    /\ \A c \in 1..Len(calls) : \A d \in 1..Len(calls) :
          (/\ calls[c].domainName = calls[d].domainName
           /\ TldSet(calls[c].selectedTLDs) = TldSet(calls[d].selectedTLDs))
          => calls[c].cacheKey = calls[d].cacheKey
    /\ \A c \in 1..Len(calls) :
          (calls[c].pc = "returned" /\ ~calls[c].cacheHit) =>
              /\ Len(calls[c].finalResults) = Cardinality(TldSet(calls[c].selectedTLDs))
              /\ \A i \in 1..Len(calls[c].finalResults) :
                    \A j \in 1..Len(calls[c].finalResults) :
                        i # j => calls[c].finalResults[i].domain # calls[c].finalResults[j].domain

\* C16: a request that finds an entry of its key aged five minutes or more
\* ignores it: it is a cache miss and sends its queries again.  When a batch
\* completes, the cache holds exactly one entry of its key, with the batch's
\* results and the time of the completion; the entries of other keys are as
\* they were.
C16_StaleEntryIgnoredAndReplaced ==
    [][ /\ (/\ Len(calls') = Len(calls) + 1
            /\ \E e \in cache :
                  /\ e.key = calls'[Len(calls')].cacheKey
                  /\ now - e.timestamp >= CACHE_TTL_MS)
           => /\ ~calls'[Len(calls')].cacheHit
              /\ calls'[Len(calls')].pc = "waiting"
              /\ calls'[Len(calls')].requests = Len(calls'[Len(calls')].sortedTLDs)
        /\ \A c \in 1..Len(calls) :
              (calls[c].pc = "waiting" /\ calls'[c].pc = "returned")
              => /\ {e \in cache' : e.key = calls[c].cacheKey}
                       = {[key |-> calls[c].cacheKey,
                           results |-> JsonCopy(calls'[c].finalResults),
                           timestamp |-> now]}
                 /\ {e \in cache' : e.key # calls[c].cacheKey}
                       = {e \in cache : e.key # calls[c].cacheKey} ]_vars

C16_Witness ==
    /\ Len(calls) = 2
    /\ calls[1].cacheKey = calls[2].cacheKey
    /\ Len(calls[1].sortedTLDs) = 2
    /\ calls[1].pc = "returned" /\ calls[1].cachedAt = 0
    /\ calls[2].pc = "returned" /\ ~calls[2].cacheHit
    /\ calls[2].cachedAt = CACHE_TTL_MS
    /\ calls[2].finalResults # calls[1].finalResults
    /\ cache = {[key |-> calls[2].cacheKey, results |-> JsonCopy(calls[2].finalResults),
                 timestamp |-> CACHE_TTL_MS]}

\* The number of calls of getNextProviderUrl made by the requests before the c-th.
RECURSIVE ProbesBefore(_)
ProbesBefore(c) ==
    IF c <= 1 THEN 0
    ELSE ProbesBefore(c - 1) + Len(calls[c - 1].probeUrls)

\* C17: with the probes of several domains and batches in flight at once, the
\* k-th call of getNextProviderUrl (k = 0, 1, ...) returns provider k mod N of
\* the N configured providers, none skipped and none repeated, and the cursor
\* is always in 0..N-1.
C17_RoundRobinWithoutSkips ==
    /\ currentProviderIndex \in 0..(Len(DOH_PROVIDER_URLS) - 1)
    /\ currentProviderIndex = ProbesBefore(Len(calls) + 1) % Len(DOH_PROVIDER_URLS)
    /\ \A c \in 1..Len(calls) : \A i \in 1..Len(calls[c].probeUrls) :
          calls[c].probeUrls[i]
             = DOH_PROVIDER_URLS[((ProbesBefore(c) + i - 1) % Len(DOH_PROVIDER_URLS)) + 1]

C17_Witness ==
    /\ Len(calls) = 2
    /\ \A c \in 1..2 :
          /\ calls[c].pc = "waiting"
          /\ Len(calls[c].promises) = 2
          /\ \A i \in 1..2 : calls[c].promises[i] = None
    /\ calls[2].probeUrls[2] = DOH_PROVIDER_URLS[1]
    /\ currentProviderIndex = 1

(***************************************************************************)
(* Further properties of one DoH call (SpecFetch).                         *)
(***************************************************************************)
\* C18: when the last request of a DoH call is aborted by the 5000 ms timer,
\* the failure the caller records has category timeout and
\* suggestsDomainExists true.
C18_AbortedCallIsClassifiedTimeout ==
    (fPc = "classified" /\ fLog[Len(fLog)].kind = "abort")
    => /\ fOut.classified.category = "timeout"
       /\ fOut.classified.suggestsDomainExists

(***************************************************************************)
(* Completion of a batch (SpecBatchFair).                                  *)
(***************************************************************************)
\* The step in which request c resumes from its join and returns.
CompletesIn(c) ==
    /\ c <= Len(calls)
    /\ calls[c].pc = "waiting"
    /\ calls'[c].pc = "returned"

\* C19: when every DoH call settles, every request on the standard path
\* returns; every domain's check has finished by then, whether or not other
\* checks failed, and the completing step leaves progress at 100 with stage
\* complete, domainsProcessed = totalDomains and isChecking false.
C19_BatchAlwaysCompletes ==
    /\ \A c \in 1..MaxCalls :
          (Len(calls) >= c) ~> (Len(calls) >= c /\ calls[c].pc = "returned")
    /\ [][\A c \in 1..MaxCalls :
             CompletesIn(c) =>
                /\ \A i \in 1..Len(calls'[c].promises) : calls'[c].promises[i] # None
                /\ Len(calls'[c].promises) = Len(calls[c].sortedTLDs)
                /\ Len(calls'[c].finalResults) = Len(calls[c].sortedTLDs)
                /\ progress'.percentage = Percent100
                /\ progress'.stage = "complete"
                /\ progress'.domainsProcessed = Len(calls[c].sortedTLDs)
                /\ progress'.totalDomains = Len(calls[c].sortedTLDs)
                /\ isChecking' = FALSE]_vars

C19_Witness ==
    \E c \in 1..Len(calls) :
        /\ calls[c].pc = "returned"
        /\ ~calls[c].cacheHit
        /\ Len(calls[c].promises) = 2
        /\ calls[c].promises[1].caught
        /\ ~calls[c].promises[2].caught
        /\ progress.percentage = Percent100
        /\ progress.stage = "complete"
        /\ progress.domainsProcessed = 2
        /\ ~isChecking

(***************************************************************************)
(* groupedResults over the result list (SpecGroup).  The list changes only *)
(* by the two splices of checkDomainsStandard; its elements are            *)
(* DomainResults of every status.                                          *)
(***************************************************************************)
DomainAvailabilityStatus == {"available", "registered", "premium", "indeterminate", "error"}

MaxResults == 3

SampleResults ==
    { BatchResult(<<"example", "com">>, s, IF s = "error" THEN "network" ELSE "",
                  IF s = "error" THEN <<"Network connection issue">> ELSE <<>>, <<>>) :
        s \in DomainAvailabilityStatus }

FinalResultLists == UNION { [1..n -> SampleResults] : n \in 0..MaxResults }

InitGroup == FetchOff /\ CheckOff /\ BatchOff /\ PureOff /\ WorkerOff

\* results.splice(0, results.length)
ResultsCleared ==
    /\ results # <<>>
    /\ results' = <<>>
    /\ UNCHANGED <<now, cache, progress, isChecking, calls, fetchVars, pureVars, workerVars, checkVars>>

\* results.splice(0, results.length, ...finalResults)
ResultsReplaced(finalResults) ==
    /\ results' = finalResults
    /\ UNCHANGED <<now, cache, progress, isChecking, calls, fetchVars, pureVars, workerVars, checkVars>>

NextGroup ==
    \/ ResultsCleared
    \/ \E finalResults \in FinalResultLists : ResultsReplaced(finalResults)

SpecGroup == InitGroup /\ [][NextGroup]_vars

\* How many times r occurs in the list rs.
Occurrences(rs, r) == Cardinality({i \in 1..Len(rs) : rs[i] = r})

\* The status values a bucket holds.
BucketStatuses ==
    [available |-> {"available"}, notAvailable |-> {"registered"},
     premium |-> {"premium"}, other |-> {"indeterminate", "error"}]

\* C20: groupedResults is a partition of the result list: each result is in
\* the one bucket its status names (available, notAvailable for registered,
\* premium, other for indeterminate and error), as many times as it is in the
\* list, so none is lost and none is duplicated.
C20_GroupedResultsIsPartition ==
    /\ DOMAIN groupedResults(results) = {"available", "notAvailable", "premium", "other"}
    /\ \A b \in DOMAIN BucketStatuses :
          \A i \in 1..Len(groupedResults(results)[b]) :
              groupedResults(results)[b][i].status \in BucketStatuses[b]
    /\ \A k \in 1..Len(results) :
          /\ \A b \in DOMAIN BucketStatuses :
                Occurrences(groupedResults(results)[b], results[k])
                   = IF results[k].status \in BucketStatuses[b]
                     THEN Occurrences(results, results[k]) ELSE 0
    /\ Len(groupedResults(results).available) + Len(groupedResults(results).notAvailable)
         + Len(groupedResults(results).premium) + Len(groupedResults(results).other)
       = Len(results)

C20_Witness ==
    /\ Len(results) = 3
    /\ results[1].status = "indeterminate"
    /\ results[2].status = "registered"
    /\ results[3].status = "error"
    /\ Len(groupedResults(results).other) = 2
    /\ Len(groupedResults(results).notAvailable) = 1

(***************************************************************************)
(* analyzeTxtRecordsForParking applied to one TXT response (SpecPure).     *)
(***************************************************************************)
\* The records a sample answer is made of: each family of patterns on a name
\* where it counts, a DKIM text on a name where it does not, a premium and an
\* active-usage marker, and a record that is not TXT.
TxtSampleRecords ==
    << TxtRecord(<<"example", "com">>, "v=spf1 -all"),
       TxtRecord(<<"sel", "_domainkey", "example", "com">>, "v=DKIM1; p="),
       TxtRecord(<<"_dmarc", "example", "com">>, "v=DMARC1; p=reject"),
       TxtRecord(<<"*", "example", "com">>, "parking_verification=sedoparking"),
       TxtRecord(<<"example", "com">>, "v=DKIM1; p="),
       TxtRecord(<<"example", "com">>, "domain-for-sale via domainbroker"),
       TxtRecord(<<"example", "com">>, "google-site-verification=abc123"),
       NsRecord(<<"ns1.example-dns.com">>) >>

\* The records of recs at the positions of S, in the order of recs.
RECURSIVE PickRecords(_, _)
PickRecords(recs, S) == IF recs = <<>> THEN <<>> ELSE PickRecords(SubSeq(recs, 1, Len(recs) - 1), S) \o (IF Len(recs) \in S THEN <<recs[Len(recs)]>> ELSE <<>>)

TxtSampleResponses ==
    { Resp(DNS_STATUS_NOERROR, FALSE, PickRecords(TxtSampleRecords, S), <<>>) :
        S \in SUBSET (1..Len(TxtSampleRecords)) }

\* const analysis = analyzeTxtRecordsForParking(data)
AnalyzerReturns ==
    /\ arg.fn = "analyzeTxtRecordsForParking"
    /\ ret = None
    /\ ret' = Returned(analyzeTxtRecordsForParking(arg.data))
    /\ UNCHANGED <<arg, fetchVars, checkVars, batchVars, workerVars>>

\* The sum of the weights of the families found in a response.
FamilyWeights(data) ==
    (IF CategoryFlag(data, "SPF") THEN 25 ELSE 0)
    + (IF CategoryFlag(data, "DKIM") THEN 20 ELSE 0)
    + (IF CategoryFlag(data, "DMARC") THEN 15 ELSE 0)
    + (IF \E i \in TxtRecords(data) : NameIsWildcard(data.Answer[i].name) THEN 15 ELSE 0)
    + (IF CategoryFlag(data, "REGISTRAR") THEN 30 ELSE 0)

\* C21: the confidence analyzeTxtRecordsForParking returns is within 0..100
\* for every combination of matched families: it is the sum of SPF 25, DKIM 20,
\* DMARC 15, wildcard-name TXT 15 and registrar marker 30, capped at 100.
C21_ConfidenceWithin0To100 ==
    (arg.fn = "analyzeTxtRecordsForParking" /\ ret # None) =>
        /\ ret.data.confidence \in 0..100
        /\ ret.data.confidence
             = (IF FamilyWeights(arg.data) > 100 THEN 100 ELSE FamilyWeights(arg.data))

C21_Witness ==
    /\ arg.fn = "analyzeTxtRecordsForParking"
    /\ ret # None
    /\ FamilyWeights(arg.data) = 105
    /\ ret.data.confidence = 100

(***************************************************************************)
(* generateLink applied to a domain and a status (SpecPure).               *)
(***************************************************************************)
LinkSampleDomains ==
    { <<name>> \o tld : name \in {"example", "httpbin"},
                        tld \in {<<"com">>, <<"io">>, <<"tk">>, <<"xyz">>} }

LinkSampleArguments ==
    { [domain |-> d, status |-> s] : d \in LinkSampleDomains, s \in DomainAvailabilityStatus }

\* link: generateLink(domain, finalStatus)
LinkGenerated ==
    /\ arg.fn = "generateLink"
    /\ ret = None
    /\ ret' = Returned(generateLink(arg.data.domain, arg.data.status))
    /\ UNCHANGED <<arg, fetchVars, checkVars, batchVars, workerVars>>

\* C22: the link is determined by the domain and the status: registered gives
\* http://<domain>, available the registrar search URL of the domain's TLD,
\* premium a marketplace URL that depends on the TLD, indeterminate and
\* error the neutral lookup URL.
C22_LinkDeterminedByStatus ==
    (arg.fn = "generateLink" /\ ret # None) =>
        ret.data =
           CASE arg.data.status = "registered" -> <<"http://">> \o arg.data.domain
             [] arg.data.status = "available" ->
                  IF LastLabelTld(arg.data.domain) \in namecheapTLDs
                  THEN <<"https://www.namecheap.com/domains/registration/results/?domain=">>
                          \o arg.data.domain
                  ELSE <<"https://domainr.com/">> \o arg.data.domain
             [] arg.data.status = "premium" ->
                  IF LastLabelTld(arg.data.domain) \in namecheapTLDs
                  THEN <<"https://www.namecheap.com/domains/registration/results/?domain=">>
                          \o arg.data.domain
                  ELSE <<"https://dan.com/buy-domain/">> \o arg.data.domain
             [] OTHER -> <<"https://domainr.com/">> \o arg.data.domain

(***************************************************************************)
(* isWildcardDetected applied to the probe's response (SpecPure).          *)
(***************************************************************************)
ProbeSampleRecords ==
    << RR(<<"check-random", "example", "com">>, DNS_RECORD_TYPE_A, <<"192.0.2.1">>),
       RR(<<"check-random", "example", "com">>, DNS_RECORD_TYPE_CNAME, <<"parking.example.net.">>),
       RR(<<"check-random", "example", "com">>, DNS_RECORD_TYPE_AAAA, <<"2001:db8::1">>),
       RR(<<"check-random", "example", "com">>, DNS_RECORD_TYPE_TXT, <<"\"", "hello world", "\"">>),
       RR(<<"example", "com">>, DNS_RECORD_TYPE_SOA, <<"ns1.example-dns.com. hostmaster.example.com. 1 7200 900 1209600 86400">>) >>

ProbeSampleResponses ==
    { Resp(st, FALSE, PickRecords(ProbeSampleRecords, S), <<>>) :
        st \in {DNS_STATUS_NOERROR, DNS_STATUS_SERVFAIL, DNS_STATUS_NXDOMAIN, DNS_STATUS_REFUSED},
        S \in SUBSET (1..Len(ProbeSampleRecords)) }

\* const isWildcardDetected = ...; return isWildcardDetected
WildcardDetected ==
    /\ arg.fn = "checkWildcardDNS"
    /\ ret = None
    /\ ret' = Returned(isWildcardDetected(arg.data))
    /\ UNCHANGED <<arg, fetchVars, checkVars, batchVars, workerVars>>

\* The types of the records of an answer section.
AnswerTypes(data) == { data.Answer[i].type : i \in 1..Len(data.Answer) }

ListedSamples ==
    { "above.com", "ns1.sedoparking.com", "failed-whois-verification.namecheap.com." }

SpellingsOf(entry) ==
    CASE entry = "above.com" -> {"above.com", "ABOVE.COM", "Above.Com"}
      [] entry = "ns1.sedoparking.com" -> {"ns1.sedoparking.com", "NS1.SEDOPARKING.COM"}
      [] entry = "failed-whois-verification.namecheap.com." ->
            {"failed-whois-verification.namecheap.com",
             "FAILED-WHOIS-VERIFICATION.NAMECHEAP.COM"}

CarriersOf(entry) ==
    { <<h>> : h \in SpellingsOf(entry) } \cup { <<h, ".">> : h \in SpellingsOf(entry) }

NsSampleData ==
    UNION { CarriersOf(e) : e \in ListedSamples }
    \cup { <<"ns1.example-dns.com">>, <<"NS1.EXAMPLE-DNS.COM", ".">> }

\* The NS result of a provider whose answer is the one record `d`.
NsResultOf(d) ==
    Fulfilled(Resp(DNS_STATUS_NOERROR, FALSE, <<d>>, <<>>), "Cloudflare", DNS_RECORD_TYPE_NS)

\* if (providerReportsParkedNs) parkedNsCount++
NameserverCounted ==
    /\ arg.fn = "providerReportsParkedNs"
    /\ ret = None
    /\ ret' = Returned(ReportsParkedNs(NsResultOf(arg.data)))
    /\ UNCHANGED <<arg, fetchVars, checkVars, batchVars, workerVars>>

\* C33: an NS record that carries a hostname listed in PARKING_NAMESERVERS, in
\* any letter case, with or without a trailing dot, is counted as a parking
\* nameserver.
C33_ListedNameserverIsCounted ==
    (/\ arg.fn = "providerReportsParkedNs"
     /\ ret # None
     /\ \E e \in ListedSamples \cap PARKING_NAMESERVERS : arg.data.data \in CarriersOf(e))
    => ret.data

\* The part of C33 that holds: of the entries written without a dot.
DotlessListedNameserverIsCounted ==
    (/\ arg.fn = "providerReportsParkedNs"
     /\ ret # None)
    => (ret.data <=> \E e \in (ListedSamples \cap PARKING_NAMESERVERS)
                               \ {"failed-whois-verification.namecheap.com."} :
                        arg.data.data \in CarriersOf(e))

Call(fn, data) == [fn |-> fn, data |-> data]

InitPure ==
    /\ arg \in { Call("analyzeTxtRecordsForParking", d) : d \in TxtSampleResponses }
              \cup { Call("generateLink", a) : a \in LinkSampleArguments }
              \cup { Call("checkWildcardDNS", d) : d \in ProbeSampleResponses }
              \cup { Call("providerReportsParkedNs", NsRecord(d)) : d \in NsSampleData }
    /\ ret = None
    /\ FetchOff /\ CheckOff /\ BatchOff /\ WorkerOff

NextPure ==
    \/ AnalyzerReturns
    \/ LinkGenerated
    \/ WildcardDetected
    \/ NameserverCounted

SpecPure == InitPure /\ [][NextPure]_vars

(***************************************************************************)
(* checkDomainsWithWorker and the worker's message handler (SpecWorker).    *)
(* The main thread and each worker run their handlers to completion; the   *)
(* messages a worker posts reach worker.onmessage one by one, in order,    *)
(* and none is delivered once the worker has been terminated.              *)
(***************************************************************************)
\* The messages of the worker.
ProgressMsg(progressState) == [type |-> "progress", progressState |-> progressState]
ResultMsg(rs) == [type |-> "result", results |-> rs]
DomainErrorMsg(message, domain) == [type |-> "error", message |-> message, domain |-> domain]
GlobalErrorMsg(message) == [type |-> "error", message |-> message]

\* { ...progress.value, ...data.progressState }
MergeProgress(p, progressState) ==
    [f \in DOMAIN p |-> IF f \in DOMAIN progressState THEN progressState[f] ELSE p[f]]

\* The messages the for loop posts when it starts domain i (0-based), up to its
\* first await.
DomainStartMsgs(domainName, tlds, i) ==
    << ProgressMsg([percentage |-> Percentage(i, Len(tlds), 0),
                    currentDomain |-> fullDomain(domainName, tlds[i + 1]),
                    stage |-> "wildcard_check",
                    domainsProcessed |-> i,
                    totalDomains |-> Len(tlds),
                    detailedMessage |-> "Starting check"]),
       ProgressMsg([percentage |-> Percentage(i, Len(tlds), 2),
                    currentDomain |-> fullDomain(domainName, tlds[i + 1]),
                    stage |-> "wildcard_check",
                    detailedMessage |-> "Checking wildcard DNS"]) >>

\* The messages posted after the third timer of domain i: the analysis phase,
\* the placeholder error that stands for the check, the domain's completion.
DomainEndMsgs(domainName, tlds, i) ==
    << ProgressMsg([percentage |-> Percentage(i, Len(tlds), 8),
                    currentDomain |-> fullDomain(domainName, tlds[i + 1]),
                    stage |-> "analyzing",
                    detailedMessage |-> "Analyzing DNS responses"]),
       DomainErrorMsg("Worker implementation incomplete",
                      fullDomain(domainName, tlds[i + 1])),
       ProgressMsg([percentage |-> Percentage(i + 1, Len(tlds), 0),
                    domainsProcessed |-> i + 1,
                    currentDomain |-> fullDomain(domainName, tlds[i + 1]),
                    stage |-> "finalizing",
                    detailedMessage |-> "Completed check"]) >>

\* The messages posted after the loop: the last progress, and the results,
\* the array `results` of the handler, to which nothing was ever pushed.
FinalMsgs(tlds) ==
    << ProgressMsg([percentage |-> 95 * PctScale,
                    stage |-> "finalizing",
                    domainsProcessed |-> Len(tlds),
                    totalDomains |-> Len(tlds),
                    detailedMessage |-> "Finalizing all domain checks..."]),
       ResultMsg(<<>>) >>

\* cleanupWorker(): worker.terminate() on the worker held, if any.
Terminated(ws, held) ==
    IF held = 0 THEN ws ELSE [ws EXCEPT ![held].terminated = TRUE]

\* useDomainCheck({ useWorkers: true }): the composable's state as constructed.
InitWorker ==
    /\ now = 0
    /\ cache = {}
    /\ results = <<>>
    /\ progress = [percentage |-> 0, stage |-> "preparing", domainsProcessed |-> 0,
                   totalDomains |-> 0, currentDomain |-> <<>>, detailedMessage |-> ""]
    /\ isChecking = FALSE
    /\ calls = <<>>
    /\ worker = 0
    /\ workers = <<>>
    /\ CheckOff
    /\ FetchOff
    /\ PureOff

\* checkDomainsWithWorker(domainName, selectedTLDs), up to its return (cache
\* hit) or to the return of the promise, the request posted to a new worker.
checkDomainsWithWorker(domainName, selectedTLDs) ==
    /\ Len(calls) < MaxCalls
    /\ LET sortedTLDs == SortTlds(selectedTLDs)
           key == cacheKey(domainName, sortedTLDs)
           cachedEntry == CacheEntry(cache, key)
       IN IF CacheHit(cachedEntry, now)
          THEN /\ results' = cachedEntry.results
               /\ calls' = Append(calls,
                     [domainName |-> domainName, selectedTLDs |-> selectedTLDs,
                      sortedTLDs |-> sortedTLDs, cacheKey |-> key, cacheHit |-> TRUE,
                      pc |-> "resolved", worker |-> 0,
                      returned |-> groupedResults(cachedEntry.results)])
               /\ UNCHANGED <<progress, isChecking, worker, workers>>
          ELSE /\ results' = <<>>
               /\ progress' = [percentage |-> 0, stage |-> "preparing",
                               domainsProcessed |-> 0, totalDomains |-> Len(sortedTLDs),
                               currentDomain |-> <<>>, detailedMessage |-> ""]
               /\ isChecking' = TRUE
               /\ workers' = Append(Terminated(workers, worker),
                                    [call |-> Len(calls) + 1, pc |-> "request", i |-> 0,
                                     timers |-> 0, outbox |-> <<>>, terminated |-> FALSE])
               /\ worker' = Len(workers) + 1
               /\ calls' = Append(calls,
                     [domainName |-> domainName, selectedTLDs |-> selectedTLDs,
                      sortedTLDs |-> sortedTLDs, cacheKey |-> key, cacheHit |-> FALSE,
                      pc |-> "pending", worker |-> Len(workers) + 1,
                      returned |-> None])
    /\ UNCHANGED <<now, cache, checkVars, fetchVars, pureVars>>

\* self.onmessage of worker w, up to its return or to its first await.
WorkerReceives(w) ==
    /\ w \in 1..Len(workers)
    /\ workers[w].pc = "request"
    /\ ~workers[w].terminated
    /\ LET domainName == calls[workers[w].call].domainName
           tlds == calls[workers[w].call].sortedTLDs
       IN IF Len(tlds) = 0
          THEN workers' = [workers EXCEPT
                  ![w].pc = "done",
                  ![w].outbox = Append(@, GlobalErrorMsg("Invalid request"))]
          ELSE workers' = [workers EXCEPT
                  ![w].pc = "timer",
                  ![w].outbox = @ \o << ProgressMsg([percentage |-> 0,
                                                     stage |-> "preparing",
                                                     domainsProcessed |-> 0,
                                                     totalDomains |-> Len(tlds),
                                                     detailedMessage |-> "Preparing domain checks..."]) >>
                                  \o DomainStartMsgs(domainName, tlds, 0)]
    /\ UNCHANGED <<worker, batchVars, checkVars, fetchVars, pureVars>>

\* One of the three 100 ms timers of the current domain fires in worker w: the
\* handler resumes and runs to its next await, or to its end.
WorkerResumes(w) ==
    /\ w \in 1..Len(workers)
    /\ workers[w].pc = "timer"
    /\ ~workers[w].terminated
    /\ LET domainName == calls[workers[w].call].domainName
           tlds == calls[workers[w].call].sortedTLDs
           i == workers[w].i
           phase(tenths, stage, text) ==
               ProgressMsg([percentage |-> Percentage(i, Len(tlds), tenths),
                            currentDomain |-> fullDomain(domainName, tlds[i + 1]),
                            stage |-> stage, detailedMessage |-> text])
       IN IF workers[w].timers = 0
          THEN workers' = [workers EXCEPT
                  ![w].timers = 1,
                  ![w].outbox = Append(@, phase(4, "primary_query", "Querying DNS providers"))]
          ELSE IF workers[w].timers = 1
          THEN workers' = [workers EXCEPT
                  ![w].timers = 2,
                  ![w].outbox = Append(@, phase(6, "fallback_query", "Performing additional DNS checks"))]
          ELSE IF i + 1 < Len(tlds)
          THEN workers' = [workers EXCEPT
                  ![w].timers = 0,
                  ![w].i = i + 1,
                  ![w].outbox = @ \o DomainEndMsgs(domainName, tlds, i)
                                  \o DomainStartMsgs(domainName, tlds, i + 1)]
          ELSE workers' = [workers EXCEPT
                  ![w].pc = "done",
                  ![w].outbox = @ \o DomainEndMsgs(domainName, tlds, i) \o FinalMsgs(tlds)]
    /\ UNCHANGED <<worker, batchVars, checkVars, fetchVars, pureVars>>

\* worker.onmessage: the main thread handles the next message of worker w.
MessageDelivered(w) ==
    /\ w \in 1..Len(workers)
    /\ ~workers[w].terminated
    /\ Len(workers[w].outbox) > 0
    /\ LET data == Head(workers[w].outbox)
           taken == [workers EXCEPT ![w].outbox = Tail(@)]
           c == workers[w].call
           sortedTLDs == calls[c].sortedTLDs
       IN IF data.type = "progress"
          THEN /\ progress' = MergeProgress(progress, data.progressState)
               /\ workers' = taken
               /\ UNCHANGED <<results, cache, isChecking, worker, calls>>
          ELSE IF data.type = "result"
          THEN /\ results' = data.results
               /\ cache' = {e \in cache : e.key # calls[c].cacheKey}
                           \cup {[key |-> calls[c].cacheKey, results |-> JsonCopy(data.results),
                                  timestamp |-> now]}
               /\ progress' = [percentage |-> Percent100, stage |-> "complete",
                               domainsProcessed |-> Len(sortedTLDs),
                               totalDomains |-> Len(sortedTLDs),
                               currentDomain |-> <<>>,
                               detailedMessage |-> "All domain checks complete"]
               /\ isChecking' = FALSE
               /\ workers' = Terminated(taken, worker)
               /\ worker' = 0
               /\ calls' = [calls EXCEPT ![c].pc = "resolved",
                                         ![c].returned = groupedResults(data.results)]
          ELSE IF "domain" \in DOMAIN data
          THEN /\ progress' = [progress EXCEPT !.detailedMessage = "Error checking"]
               /\ workers' = taken
               /\ UNCHANGED <<results, cache, isChecking, worker, calls>>
          ELSE /\ isChecking' = FALSE
               /\ workers' = Terminated(taken, worker)
               /\ worker' = 0
               /\ calls' = [calls EXCEPT ![c].pc = "rejected"]
               /\ UNCHANGED <<results, cache, progress>>
    /\ UNCHANGED <<now, checkVars, fetchVars, pureVars>>

\* worker.onerror: the script of worker w fails before it handles the request.
WorkerFails(w) ==
    /\ w \in 1..Len(workers)
    /\ ~workers[w].terminated
    /\ workers[w].pc = "request"
    /\ isChecking' = FALSE
    /\ workers' = Terminated([workers EXCEPT ![w].pc = "done"], worker)
    /\ worker' = 0
    /\ calls' = [calls EXCEPT ![workers[w].call].pc = "rejected"]
    /\ UNCHANGED <<now, cache, results, progress, checkVars, fetchVars, pureVars>>

NextWorker ==
    \/ \E domainName \in BatchNames : \E selectedTLDs \in TldLists :
           checkDomainsWithWorker(domainName, selectedTLDs)
    \/ \E w \in 1..Len(workers) : WorkerReceives(w)
    \/ \E w \in 1..Len(workers) : WorkerResumes(w)
    \/ \E w \in 1..Len(workers) : MessageDelivered(w)
    \/ \E w \in 1..Len(workers) : WorkerFails(w)
    \/ \E t \in ClockTimes : Tick(t)

SpecWorker == InitWorker /\ [][NextWorker]_vars

\* A worker that is not terminated runs its handler and its timers fire; a
\* message posted by a worker that is not terminated is delivered.
WorkerFairness ==
    /\ WF_vars(\E w \in 1..Len(workers) : WorkerReceives(w) \/ WorkerResumes(w))
    /\ WF_vars(\E w \in 1..Len(workers) : MessageDelivered(w))

SpecWorkerFair == InitWorker /\ [][NextWorker]_vars /\ WorkerFairness

\* The number of DomainResults of a grouped result.
GroupedSize(g) == Len(g.available) + Len(g.notAvailable) + Len(g.premium) + Len(g.other)

\* The standard path's side of C37 (SpecBatch): a batch that was not served
\* from the cache returns one DomainResult per requested TLD and caches them.
StandardPathOneResultPerTld ==
    \A c \in 1..Len(calls) :
        (calls[c].pc = "returned" /\ ~calls[c].cacheHit) =>
            /\ GroupedSize(calls[c].returned) = Len(calls[c].sortedTLDs)
            /\ \A e \in cache :
                  e.key = calls[c].cacheKey => Len(e.results) = Len(calls[c].sortedTLDs)

\* C37: the worker-based path resolves, as the standard path does, with one
\* DomainResult per requested TLD, and caches a result set of that size under
\* the key of the request.
C37_WorkerPathResolvesLikeStandard ==
    \A c \in 1..Len(calls) :
        (calls[c].pc = "resolved" /\ ~calls[c].cacheHit) =>
            /\ GroupedSize(calls[c].returned) = Len(calls[c].sortedTLDs)
            /\ \A e \in cache :
                  e.key = calls[c].cacheKey => Len(e.results) = Len(calls[c].sortedTLDs)

\* C38: every promise returned by checkDomains on the worker-based path is
\* eventually resolved or rejected.
C38_EveryWorkerPromiseSettles ==
    \A c \in 1..MaxCalls :
        (Len(calls) >= c) ~> (Len(calls) >= c /\ calls[c].pc \in {"resolved", "rejected"})

\* Why the promise of C38's counterexample stays pending whatever is called
\* later: once the worker of a pending call is terminated, no step settles
\* the call or revives the worker.
TerminatedWorkerStaysSilent ==
    [][\A c \in 1..Len(calls) :
          (calls[c].pc = "pending" /\ workers[calls[c].worker].terminated)
          => (calls'[c].pc = "pending" /\ workers'[calls[c].worker].terminated)]_vars

=============================================================================
